---- MODULE Spec2Model ----
(***************************************************************************)
(* Angular-IndexedDB-ORM: the entity registry (core/registry.ts), the      *)
(* schema builder and version manager (core/schema.ts), the database open  *)
(* hook (core/database.ts) and the key fast path of the query service      *)
(* (clients/prisma.service.ts).                                            *)
(***************************************************************************)
EXTENDS Integers, Sequences, FiniteSets, TLC

(***************************************************************************)
(* Bounds of the model.                                                    *)
(***************************************************************************)
\* registry calls (addEntity / addColumn / resetRegistry) per behaviour
MaxCalls == 3

\* registry calls per behaviour next to the database's init() calls
MaxDbCalls == 2

\* registry calls whose permutations are compared
MaxPermCalls == 3

\* the stored version up to which getVersion is called
MaxVersion == 5

\* calls of the query service per behaviour
MaxOps == 2

(***************************************************************************)
(* Inputs.  Constructors are named by their class name (Function.name):    *)
(* B extends A, A extends Base, Base extends Object.  Base is an abstract  *)
(* base class: it carries @Column decorators and no @Entity decorator.     *)
(***************************************************************************)
Ctors == {"Base", "A", "B"}

\* the classes that carry an @Entity decorator
EntityTargets == {"A", "B"}

Undefined == "<undefined>"

NoError == "<ok>"

InvalidTarget == "<no constructor>"

\* target.name
TargetName(ctor) == ctor

\* Object.getPrototypeOf(ctor.prototype).constructor; Undefined stands for Object
ProtoParent(ctor) == CASE ctor = "B" -> "A" [] ctor = "A" -> "Base" [] OTHER -> Undefined

\* the explicit names an @Entity(name) call may carry, next to no name at all
ExplicitNames == {"", "A", "X"}

PropertyKeys == {"id", "k"}

\* ColumnOptions objects: a subset of the two optional fields, each a boolean
NoOptions == [f \in {} |-> TRUE]

OptionInputs == { NoOptions, [primary |-> TRUE], [primary |-> FALSE], [autoIncrement |-> TRUE], [primary |-> TRUE, autoIncrement |-> TRUE] }

\* the code-unit order of the strings the model sorts
StrRank(s) == CASE s = "" -> 0 [] s = "A" -> 1 [] s = "B" -> 2 [] s = "Base" -> 3 [] s = "X" -> 4 [] s = "id" -> 5 [] s = "k" -> 6 [] OTHER -> 7

(***************************************************************************)
(* State.                                                                  *)
(***************************************************************************)
VARIABLES
    byCtor,       \* registry.ts:20  WeakMap<Ctor, EntityMeta>: a function on the registered ctors
    byTable,      \* registry.ts:21  Map<string, EntityMeta>: <<tableName, target>> in insertion order
    sealed,       \* registry.ts:22
    ret,          \* the last call: its name, arguments of interest and the error it threw
    nCalls,       \* number of registry calls made so far
    explicitName, \* history: the name each ctor got from a successful addEntity(ctor, name)
    calls,        \* history: the registry calls made so far, in order
    initialized,  \* Database.initialized
    dbState,      \* the dexie database: "closed", "opening", "open" or "failed"
    declared,     \* what version(v).stores(schema) last declared
    initPc,       \* where each init() call stands
    window,       \* whether `typeof window !== 'undefined'`
    item,         \* localStorage[versionKey(dbName)]
    nWrites,      \* number of localStorage.setItem calls
    lastVersion,  \* what the last getVersion call returned (0: none yet)
    lastSchema,   \* the schema the last getVersion call was given
    keyPath,      \* table.schema.primKey.keyPath
    whereArg,     \* the where argument of the call
    keyResult,    \* what tryBuildKeyFromWhere returned
    keyPc,        \* "call" before, "done" after tryBuildKeyFromWhere
    record,       \* the item a compiled predicate is applied to
    matched,      \* what buildPredicate(where)(item) returned
    predPc,       \* "call" before, "done" after the predicate is applied
    rows,         \* the table: its <<key, value>> entries in key order
    autoInc,      \* table.schema.primKey.auto
    nextKey,      \* the table's key generator: the next key it hands out
    res,          \* the last call of the query service: arguments, result, error
    before,       \* history: the table as the last call of the query service found it
    nOps,         \* number of calls of the query service made so far
    storeMode,    \* which of its two behaviours the table store shows (see StoreModes)
    orderBy,      \* the orderBy argument: a list of mappings, each a list of <<field, direction>>
    operands,     \* the records the compiled comparator is applied to
    cmpResult,    \* what the comparator returned for each pair of operands
    ordPc,        \* "call" before, "done" after the comparator is applied
    tasks         \* the calls of the query service in flight: arguments, position, locals, outcome

regVars == <<byCtor, byTable, sealed, ret, nCalls, explicitName>>

permVars == <<calls>>

dbVars == <<initialized, dbState, declared, initPc>>

storeVars == <<window, item, nWrites>>

verVars == <<lastVersion, lastSchema>>

keyVars == <<keyPath, whereArg, keyResult, keyPc>>

predVars == <<record, matched, predPc>>

crudVars == <<rows, autoInc, nextKey, res, before, nOps, storeMode>>

ordVars == <<orderBy, operands, cmpResult, ordPc>>

raceVars == <<tasks>>

vars == <<regVars, permVars, dbVars, storeVars, verVars, keyVars, predVars, crudVars, ordVars, raceVars>>

(***************************************************************************)
(* JavaScript helpers.                                                     *)
(***************************************************************************)
\* options.primary / options.autoIncrement used as a condition
Truthy(options, field) == field \in DOMAIN options /\ options[field]

\* Map.prototype.has
MapHas(m, key) == \E i \in 1..Len(m) : m[i][1] = key

\* Map.prototype.get, for a key the map has
MapGet(m, key) == m[CHOOSE i \in 1..Len(m) : m[i][1] = key][2]

\* Map.prototype.set: an existing key keeps its place, a new one goes last
MapSet(m, key, value) == IF MapHas(m, key) THEN [i \in 1..Len(m) |-> IF m[i][1] = key THEN <<key, value>> ELSE m[i]] ELSE Append(m, <<key, value>>)

\* Map.prototype.delete
MapDelete(m, key) == SelectSeq(m, LAMBDA e : e[1] # key)

\* { ...old, ...new }
Spread(old, new) == [f \in DOMAIN old \cup DOMAIN new |-> IF f \in DOMAIN new THEN new[f] ELSE old[f]]

(***************************************************************************)
(* core/registry.ts                                                        *)
(***************************************************************************)
Outcome(err, bc, bt) == [err |-> err, byCtor |-> bc, byTable |-> bt]

\* a registry whose seal is never looked at
assertNotSealed_never(s) == FALSE

\* assertNotSealed throws
assertNotSealed(s) == s

\* a registry that never looks for the name in byTable
duplicateTableName_never(bt, target, tableName) == FALSE

\* `existing && existing.target !== target`
duplicateTableName(bt, target, tableName) == MapHas(bt, tableName) /\ MapGet(bt, tableName) # target

\* `const isDefaultOld = oldName === target.name`
isDefaultOld(oldName, target) == oldName = TargetName(target)

ensureEntityMeta(bc, bt, target, name) ==
    IF target \notin DOMAIN bc
    THEN LET tableName == IF name = Undefined THEN TargetName(target) ELSE name
         IN  IF tableName = "" THEN Outcome("Table name cannot be empty", bc, bt)
             ELSE IF duplicateTableName(bt, target, tableName) THEN Outcome("Duplicate table name", bc, bt)
             ELSE Outcome(NoError, (target :> [tableName |-> tableName, columns |-> <<>>]) @@ bc, MapSet(bt, tableName, target))
    ELSE IF name # Undefined /\ name # "" /\ bc[target].tableName # name
    THEN LET oldName == bc[target].tableName
         IN  IF duplicateTableName(bt, target, name) THEN Outcome("Duplicate table name", bc, bt)
             ELSE IF isDefaultOld(oldName, target)
             THEN LET dropped == IF MapHas(bt, oldName) /\ MapGet(bt, oldName) = target THEN MapDelete(bt, oldName) ELSE bt
                  IN  Outcome(NoError, [bc EXCEPT ![target].tableName = name], MapSet(dropped, name, target))
             ELSE Outcome("refusing to rename", bc, bt)
    ELSE Outcome(NoError, bc, bt)

addEntity(s, bc, bt, target, name) ==
    IF assertNotSealed(s) THEN Outcome("Registry is sealed", bc, bt)
    ELSE ensureEntityMeta(bc, bt, target, name)

\* `meta.columns.find((c) => c.options.primary && c.propertyKey !== key)` found one
existingPrimary(columns, key) == \E i \in 1..Len(columns) : Truthy(columns[i].options, "primary") /\ columns[i].propertyKey # key

\* `options.autoIncrement && !options.primary`
autoIncrementWithoutPrimary(options) == Truthy(options, "autoIncrement") /\ ~Truthy(options, "primary")

\* lines 90-96: the column is replaced in place or pushed, its options merged
upsertColumn(columns, key, options) ==
    IF \E i \in 1..Len(columns) : columns[i].propertyKey = key
    THEN [i \in 1..Len(columns) |-> IF columns[i].propertyKey = key THEN [propertyKey |-> key, options |-> Spread(columns[i].options, options)] ELSE columns[i]]
    ELSE Append(columns, [propertyKey |-> key, options |-> Spread(<<>>, options)])

\* target is the prototype the decorator got: its constructor, or InvalidTarget
addColumn(s, bc, bt, target, key, options) ==
    IF assertNotSealed(s) THEN Outcome("Registry is sealed", bc, bt)
    ELSE IF target = InvalidTarget THEN Outcome("invalid target", bc, bt)
    ELSE LET e == ensureEntityMeta(bc, bt, target, Undefined)
         IN  IF e.err # NoError THEN e
             ELSE LET meta == e.byCtor[target]
                  IN  IF autoIncrementWithoutPrimary(options) THEN Outcome("autoIncrement requires primary", e.byCtor, e.byTable)
                      ELSE IF Truthy(options, "primary") /\ existingPrimary(meta.columns, key) THEN Outcome("Multiple primary columns", e.byCtor, e.byTable)
                      ELSE Outcome(NoError, [e.byCtor EXCEPT ![target].columns = upsertColumn(meta.columns, key, options)], e.byTable)

\* lines 127-136: the constructors from the root of the prototype chain down to ctor
RECURSIVE prototypeChain(_)
prototypeChain(ctor) == IF ctor = Undefined THEN <<>> ELSE Append(prototypeChain(ProtoParent(ctor)), ctor)

\* lines 142-145: columnsMap.set for each column of one entity, in order
RECURSIVE overlayColumns(_, _)
overlayColumns(columnsMap, columns) ==
    IF columns = <<>> THEN columnsMap
    ELSE overlayColumns(MapSet(columnsMap, Head(columns).propertyKey, Head(columns).options), Tail(columns))

\* lines 139-146: the overlay of every registered entity of the chain, root first
RECURSIVE mergeChain(_, _, _)
mergeChain(bc, chain, columnsMap) ==
    IF chain = <<>> THEN columnsMap
    ELSE mergeChain(bc, Tail(chain), IF Head(chain) \in DOMAIN bc THEN overlayColumns(columnsMap, bc[Head(chain)].columns) ELSE columnsMap)

\* lines 149-150: the property keys of the merged columns marked primary
distinctPrimaryKeys(columnsMap) == { columnsMap[i][1] : i \in { j \in 1..Len(columnsMap) : Truthy(columnsMap[j][2], "primary") } }

\* a validation that lets two primary columns through
tooManyPrimaries_offByOne(columnsMap) == Cardinality(distinctPrimaryKeys(columnsMap)) > 2

\* `distinctPrimaryKeys.size > 1`
tooManyPrimaries(columnsMap) == Cardinality(distinctPrimaryKeys(columnsMap)) > 1

\* resolveEntity(meta) for the meta of target: the merged columns, or the error thrown
resolveEntity(bc, target) ==
    LET columnsMap == mergeChain(bc, prototypeChain(target), <<>>)
    IN  IF tooManyPrimaries(columnsMap)
        THEN [err |-> "Multiple primary columns across inheritance", columns |-> <<>>]
        ELSE [err |-> NoError, columns |-> [i \in 1..Len(columnsMap) |-> [propertyKey |-> columnsMap[i][1], options |-> columnsMap[i][2]]]]

(***************************************************************************)
(* core/schema.ts                                                          *)
(***************************************************************************)
\* Array.prototype.sort on strings: a stable insertion sort by code-unit order
RECURSIVE insertString(_, _)
insertString(sorted, s) ==
    IF sorted = <<>> THEN <<s>>
    ELSE IF StrRank(s) < StrRank(Head(sorted)) THEN <<s>> \o sorted
    ELSE <<Head(sorted)>> \o insertString(Tail(sorted), s)

RECURSIVE sortStrings(_)
sortStrings(seq) == IF seq = <<>> THEN <<>> ELSE insertString(sortStrings(SubSeq(seq, 1, Len(seq) - 1)), seq[Len(seq)])

\* sort((a, b) => a[0].localeCompare(b[0])) on <<key, value>> entries, stable
RECURSIVE insertEntry(_, _)
insertEntry(sorted, e) ==
    IF sorted = <<>> THEN <<e>>
    ELSE IF StrRank(e[1]) < StrRank(Head(sorted)[1]) THEN <<e>> \o sorted
    ELSE <<Head(sorted)>> \o insertEntry(Tail(sorted), e)

RECURSIVE sortEntries(_)
sortEntries(seq) == IF seq = <<>> THEN <<>> ELSE insertEntry(sortEntries(SubSeq(seq, 1, Len(seq) - 1)), seq[Len(seq)])

\* parts.join(', ')
RECURSIVE join(_)
join(parts) == IF parts = <<>> THEN "" ELSE IF Len(parts) = 1 THEN parts[1] ELSE parts[1] \o ", " \o join(Tail(parts))

\* buildTableSchema, given the resolved columns
buildTableSchema(columns) ==
    LET primaries == SelectSeq(columns, LAMBDA c : Truthy(c.options, "primary"))
        primaryPart == IF primaries = <<>> THEN "" ELSE IF Truthy(primaries[1].options, "autoIncrement") THEN "++" \o primaries[1].propertyKey ELSE primaries[1].propertyKey
        others == SelectSeq(columns, LAMBDA c : ~Truthy(c.options, "primary"))
        otherCols == sortStrings([i \in 1..Len(others) |-> others[i].propertyKey])
    IN  join((IF primaryPart # "" THEN <<primaryPart>> ELSE <<>>) \o otherCols)

\* getAllEntities().slice().sort(by tableName): the targets in table-name order
sortedEntities(bc, bt) ==
    LET byName == sortEntries([i \in 1..Len(bt) |-> <<bc[bt[i][2]].tableName, bt[i][2]>>])
    IN  [i \in 1..Len(byName) |-> byName[i][2]]

\* the loop of buildSchema: schema[meta.tableName] = buildTableSchema(meta), or the first throw
RECURSIVE fillSchema(_, _, _)
fillSchema(bc, entities, schema) ==
    IF entities = <<>> THEN [err |-> NoError, schema |-> schema]
    ELSE LET resolved == resolveEntity(bc, Head(entities))
         IN  IF resolved.err # NoError THEN [err |-> resolved.err, schema |-> <<>>]
             ELSE fillSchema(bc, Tail(entities), MapSet(schema, bc[Head(entities)].tableName, buildTableSchema(resolved.columns)))

\* buildSchema(): a Record<string, string> as its <<table, definition>> entries in insertion order
buildSchema(bc, bt) == fillSchema(bc, sortedEntities(bc, bt), <<>>)

\* a string that is the JSON text of entries, and the empty string
JsonText(entries) == [kind |-> "json", entries |-> entries]

EmptyString == [kind |-> "", entries |-> <<>>]

\* computeSignature
computeSignature(schema) == JsonText(sortEntries(schema))

\* localStorage items: nothing stored, a text JSON.parse rejects, or the JSON of a record
AbsentItem == [kind |-> "absent", version |-> 0, signature |-> EmptyString]

CorruptItem == [kind |-> "corrupt", version |-> 0, signature |-> EmptyString]

\* JSON.stringify({ version, signature })
JsonRecord(version, signature) == [kind |-> "record", version |-> version, signature |-> signature]

DefaultVersion == [version |-> 1, signature |-> EmptyString]

\* loadStoredVersion; hasWindow is whether `typeof window !== 'undefined'`, raw the stored item
loadStoredVersion(hasWindow, raw) ==
    IF ~hasWindow THEN DefaultVersion
    ELSE IF raw.kind = "absent" THEN DefaultVersion
    ELSE IF raw.kind = "corrupt" THEN DefaultVersion
    ELSE [version |-> raw.version, signature |-> raw.signature]

\* storeVersion: the value returned and the item left in localStorage
storeVersion(hasWindow, raw, version, signature) ==
    IF ~hasWindow THEN [version |-> version, item |-> raw, wrote |-> FALSE]
    ELSE [version |-> version, item |-> JsonRecord(version, signature), wrote |-> TRUE]

\* a getVersion that stores a new version whatever the stored signature is
getVersion_alwaysStores(hasWindow, raw, schema) == storeVersion(hasWindow, raw, loadStoredVersion(hasWindow, raw).version + 1, computeSignature(schema))

\* getVersion
getVersion(hasWindow, raw, schema) ==
    LET signature == computeSignature(schema)
        stored == loadStoredVersion(hasWindow, raw)
    IN  IF signature = stored.signature THEN [version |-> stored.version, item |-> raw, wrote |-> FALSE]
        ELSE storeVersion(hasWindow, raw, stored.version + 1, signature)


(***************************************************************************)
(* clients/prisma.service.ts: the primary-key fast path                    *)
(***************************************************************************)
\* JavaScript values: undefined, null, numbers, strings (the sequence of their
\* characters), Date objects (their epoch time) and arrays
Undef == [t |-> "undefined", v |-> 0]

Null == [t |-> "null", v |-> 0]

Num(n) == [t |-> "number", v |-> n]

Str(chars) == [t |-> "string", v |-> chars]

Date(time) == [t |-> "date", v |-> time]

Array(items) == [t |-> "array", v |-> items]

\* the empty object as a record
NoRecord == [f \in {} |-> Undef]

\* a field's filter: a literal value, or an object of operators
Literal(value) == [kind |-> "literal", value |-> value, ops |-> <<>>]

Object(ops) == [kind |-> "object", value |-> Undef, ops |-> ops]

\* the value of a logical key (AND, OR, NOT): a list of conditions or a single condition
List(subs) == [list |-> TRUE, subs |-> subs]

Single(sub) == [list |-> FALSE, subs |-> <<sub>>]

\* the where argument: absent, or its field-level entries and the logical keys it carries,
\* each with its value
NoWhere == [present |-> FALSE, fields |-> <<>>, logical |-> <<>>]

Where(fields, logical) == [present |-> TRUE, fields |-> fields, logical |-> logical]

\* getPrimaryKeyPath: null, a string, or an array of strings
NoKeyPath == [kind |-> "null", path |-> <<>>]

SimpleKeyPath(name) == [kind |-> "string", path |-> <<name>>]

CompoundKeyPath(names) == [kind |-> "array", path |-> names]

\* key results: undefined (no match), a scalar, or an array of parts
NoKey == [kind |-> "undefined", value |-> Undef, parts |-> <<>>]

ScalarKey(value) == IF value = Undef THEN NoKey ELSE [kind |-> "scalar", value |-> value, parts |-> <<>>]

ArrayKey(parts) == [kind |-> "array", value |-> Undef, parts |-> parts]

\* isObject: a non-null value of type 'object' that is no array; a Date is one
isObject(raw) == raw.kind = "object" \/ (raw.kind = "literal" /\ raw.value.t = "date")

\* hasOnlyKeys(obj, keys), for the key set of obj
hasOnlyKeys(objKeys, keys) == Cardinality(objKeys) = Len(keys) /\ \A i \in 1..Len(keys) : keys[i] \in objKeys

\* `isObject(raw) ? raw['equals'] : raw`, with w[k] undefined for a key w lacks
equalsOrRaw(fields, k) ==
    IF k \notin DOMAIN fields THEN Undef
    ELSE IF isObject(fields[k]) THEN (IF "equals" \in DOMAIN fields[k].ops THEN fields[k].ops["equals"] ELSE Undef)
    ELSE fields[k].value

tryBuildKeyFromWhere(kp, w) ==
    IF ~w.present THEN NoKey
    ELSE IF kp.kind = "null" THEN NoKey
    ELSE IF kp.kind = "string"
    THEN IF ~hasOnlyKeys(DOMAIN w.fields, kp.path) THEN NoKey
         ELSE ScalarKey(equalsOrRaw(w.fields, kp.path[1]))
    ELSE IF ~hasOnlyKeys(DOMAIN w.fields, kp.path) THEN NoKey
         ELSE ArrayKey([i \in 1..Len(kp.path) |-> equalsOrRaw(w.fields, kp.path[i])])

(***************************************************************************)
(* clients/prisma.service.ts: the predicate engine                         *)
(***************************************************************************)
\* the code units of the characters the model's strings are made of
CharRank(c) == CASE c = "A" -> 65 [] c = "b" -> 98 [] c = "l" -> 108 [] c = "o" -> 111 [] OTHER -> 0

\* `a === b`: two Date objects, or two arrays, are never the same object
StrictEquals(a, b) == a.t \notin {"date", "array"} /\ a = b

\* valueForComparison, then the number the relational operators make of the value;
\* NotANumber for undefined, for a string of letters and for an array
NotANumber == [nan |-> TRUE, n |-> 0]

ToNumber(v) == CASE v.t \in {"number", "date"} -> [nan |-> FALSE, n |-> v.v] [] v.t = "null" -> [nan |-> FALSE, n |-> 0] [] v.t = "string" /\ v.v = <<>> -> [nan |-> FALSE, n |-> 0] [] OTHER -> NotANumber

\* the order of two strings by their code units
RECURSIVE StringLess(_, _)
StringLess(s, u) ==
    IF u = <<>> THEN FALSE
    ELSE IF s = <<>> THEN TRUE
    ELSE IF CharRank(Head(s)) # CharRank(Head(u)) THEN CharRank(Head(s)) < CharRank(Head(u))
    ELSE StringLess(Tail(s), Tail(u))

\* `av < bv` of lines 95-98 (and, with the arguments swapped, `av > bv` of lines 83-86)
JsLess(a, b) ==
    IF a.t = "string" /\ b.t = "string" THEN StringLess(a.v, b.v)
    ELSE ~ToNumber(a).nan /\ ~ToNumber(b).nan /\ ToNumber(a).n < ToNumber(b).n

\* `av <= bv` of lines 101-104 (and, with the arguments swapped, `av >= bv` of lines 89-92)
JsLessOrEqual(a, b) ==
    IF a.t = "string" /\ b.t = "string" THEN ~StringLess(b.v, a.v)
    ELSE ~ToNumber(a).nan /\ ~ToNumber(b).nan /\ ToNumber(a).n <= ToNumber(b).n

\* Array.prototype.includes
Includes(list, value) == \E i \in 1..Len(list) : StrictEquals(list[i], value)

\* String.prototype.startsWith, endsWith and includes
StartsWith(s, u) == Len(u) <= Len(s) /\ SubSeq(s, 1, Len(u)) = u

EndsWith(s, u) == Len(u) <= Len(s) /\ SubSeq(s, Len(s) - Len(u) + 1, Len(s)) = u

StringIncludes(s, u) == \E i \in 0..(Len(s) - Len(u)) : SubSeq(s, i + 1, i + Len(u)) = u

\* evalFieldFilter: the operators of an object condition all hold; a condition that is
\* no object is compared with ===
RECURSIVE evalFieldFilter(_, _)
evalFieldFilter(value, condition) ==
    IF ~isObject(condition) THEN StrictEquals(value, condition.value)
    ELSE \A opKey \in DOMAIN condition.ops :
        LET opVal == condition.ops[opKey]
        IN  CASE opKey = "equals" -> StrictEquals(value, opVal)
              [] opKey = "in" -> opVal.t = "array" /\ Includes(opVal.v, value)
              [] opKey = "notIn" -> ~(opVal.t = "array" /\ Includes(opVal.v, value))
              [] opKey = "gt" -> JsLess(opVal, value)
              [] opKey = "gte" -> JsLessOrEqual(opVal, value)
              [] opKey = "lt" -> JsLess(value, opVal)
              [] opKey = "lte" -> JsLessOrEqual(value, opVal)
              [] opKey = "contains" -> IF value.t = "string" /\ opVal.t = "string" THEN StringIncludes(value.v, opVal.v) ELSE IF value.t = "array" THEN Includes(value.v, opVal) ELSE FALSE
              [] opKey = "startsWith" -> value.t = "string" /\ opVal.t = "string" /\ StartsWith(value.v, opVal.v)
              [] opKey = "endsWith" -> value.t = "string" /\ opVal.t = "string" /\ EndsWith(value.v, opVal.v)
              [] opKey = "not" -> ~evalFieldFilter(value, opVal)
              [] OTHER -> StrictEquals(value, opVal)

\* itemRec[k]: undefined for a property the record lacks
Field(rec, k) == IF k \in DOMAIN rec THEN rec[k] ELSE Undef

\* whereObj['AND'] and its like: the value of a logical key the condition carries
HasNode(where, key) == key \in DOMAIN where.logical

\* an OR node that rejects every record once it is an array, empty or not
orConstrains_emptyToo(node) == node.list

\* line 166: `Array.isArray(orNode) && orNode.length`
orConstrains(node) == node.list /\ Len(node.subs) > 0

\* buildPredicate(where)(item)
RECURSIVE buildPredicate(_, _)
buildPredicate(where, rec) ==
    IF ~where.present THEN TRUE
    ELSE /\ \A k \in DOMAIN where.fields : evalFieldFilter(Field(rec, k), where.fields[k])
         /\ HasNode(where, "AND") => \A i \in 1..Len(where.logical["AND"].subs) : buildPredicate(where.logical["AND"].subs[i], rec)
         /\ (HasNode(where, "OR") /\ orConstrains(where.logical["OR"])) => \E i \in 1..Len(where.logical["OR"].subs) : buildPredicate(where.logical["OR"].subs[i], rec)
         /\ HasNode(where, "NOT") => \A i \in 1..Len(where.logical["NOT"].subs) : ~buildPredicate(where.logical["NOT"].subs[i], rec)

(***************************************************************************)
(* The dexie table the query service is given (an external collaborator):  *)
(* get, add, bulkAdd, update, delete, bulkDelete and the cursor over all   *)
(* records in key order.                                                   *)
(***************************************************************************)
\* the two behaviours of Table.update the store may show: a patch that changes the
\* primary key moves the record to the new key ("rekey") or is refused with an error
\* ("strict"); a patch that changes nothing is reported as 1 ("rekey") or 0 ("strict")
StoreModes == {"rekey", "strict"}

\* values IndexedDB accepts as a key or as a part of an array key
ValidKeyValue(v) == v.t \in {"number", "date", "string"}

ValidKey(key) == CASE key.kind = "scalar" -> ValidKeyValue(key.value) [] key.kind = "array" -> \A i \in 1..Len(key.parts) : ValidKeyValue(key.parts[i]) [] OTHER -> FALSE

\* the key order of IndexedDB: numbers, then dates, then strings, then arrays
TypeRank(v) == CASE v.t = "number" -> 1 [] v.t = "date" -> 2 [] v.t = "string" -> 3 [] OTHER -> 4

ValueLess(v, w) == IF TypeRank(v) # TypeRank(w) THEN TypeRank(v) < TypeRank(w) ELSE IF v.t = "string" THEN StringLess(v.v, w.v) ELSE v.v < w.v

RECURSIVE PartsLess(_, _)
PartsLess(ps, qs) ==
    IF qs = <<>> THEN FALSE
    ELSE IF ps = <<>> THEN TRUE
    ELSE IF Head(ps) # Head(qs) THEN ValueLess(Head(ps), Head(qs))
    ELSE PartsLess(Tail(ps), Tail(qs))

KeyLess(k, l) == IF k.kind = "array" /\ l.kind = "array" THEN PartsLess(k.parts, l.parts) ELSE IF k.kind = "array" \/ l.kind = "array" THEN l.kind = "array" ELSE ValueLess(k.value, l.value)

Row(key, value) == [key |-> key, value |-> value]

HasKey(table, key) == \E i \in 1..Len(table) : table[i].key = key

ValueAt(table, key) == table[CHOOSE i \in 1..Len(table) : table[i].key = key].value

\* the table without the entry at key
RemoveRow(table, key) == SelectSeq(table, LAMBDA r : r.key # key)

\* the table with a new entry at its place in key order
InsertRow(table, row) == SelectSeq(table, LAMBDA r : KeyLess(r.key, row.key)) \o <<row>> \o SelectSeq(table, LAMBDA r : KeyLess(row.key, r.key))

\* the values of the table in cursor order
Values(table) == [i \in 1..Len(table) |-> table[i].value]

\* the key a record carries at the key path (inbound keys); NoKey without a key path
getKeyFromEntity(kp, rec) ==
    IF kp.kind = "null" THEN NoKey
    ELSE IF kp.kind = "string" THEN ScalarKey(Field(rec, kp.path[1]))
    ELSE ArrayKey([i \in 1..Len(kp.path) |-> Field(rec, kp.path[i])])

\* the key generator after a record was stored under an explicit key
nextAfter(auto, next, key) == IF auto /\ key.kind = "scalar" /\ key.value.t = "number" /\ key.value.v >= next THEN key.value.v + 1 ELSE next

StoreResult(err, table, next, key, n) == [err |-> err, rows |-> table, nextKey |-> next, key |-> key, n |-> n]

\* Table.get(key): the value, or undefined
tableGet(table, key) ==
    IF ~ValidKey(key) THEN [err |-> "DataError", found |-> FALSE, value |-> NoRecord]
    ELSE IF HasKey(table, key) THEN [err |-> NoError, found |-> TRUE, value |-> ValueAt(table, key)]
    ELSE [err |-> NoError, found |-> FALSE, value |-> NoRecord]

\* Table.add(record): the key comes from the record, or from the key generator
tableAdd(table, kp, auto, next, rec) ==
    LET given == getKeyFromEntity(kp, rec)
        generated == ScalarKey(Num(next))
    IN  IF given = NoKey
        THEN IF ~auto THEN StoreResult("DataError", table, next, NoKey, 0)
             ELSE StoreResult(NoError, InsertRow(table, Row(generated, IF kp.kind = "string" THEN (kp.path[1] :> Num(next)) @@ rec ELSE rec)), next + 1, generated, 1)
        ELSE IF ~ValidKey(given) THEN StoreResult("DataError", table, next, NoKey, 0)
        ELSE IF HasKey(table, given) THEN StoreResult("ConstraintError", table, next, NoKey, 0)
        ELSE StoreResult(NoError, InsertRow(table, Row(given, rec)), nextAfter(auto, next, given), given, 1)

\* the records added one after the other, up to the first that fails
RECURSIVE addAll(_, _, _, _, _)
addAll(table, kp, auto, next, recs) ==
    IF recs = <<>> THEN StoreResult(NoError, table, next, NoKey, 0)
    ELSE LET r == tableAdd(table, kp, auto, next, Head(recs))
         IN  IF r.err # NoError THEN r
             ELSE LET rest == addAll(r.rows, kp, auto, r.nextKey, Tail(recs))
                  IN  StoreResult(rest.err, rest.rows, rest.nextKey, NoKey, rest.n + 1)

\* Table.bulkAdd(records): all of them or none
tableBulkAdd(table, kp, auto, next, recs) ==
    LET r == addAll(table, kp, auto, next, recs)
    IN  IF r.err # NoError THEN StoreResult(r.err, table, next, NoKey, 0) ELSE r

\* Table.update(key, changes): the number of records it modified
tableUpdate(table, kp, auto, next, mode, key, patch) ==
    IF ~ValidKey(key) THEN StoreResult("DataError", table, next, key, 0)
    ELSE IF ~HasKey(table, key) THEN StoreResult(NoError, table, next, key, 0)
    ELSE LET old == ValueAt(table, key)
             new == patch @@ old
             newKey == IF kp.kind = "null" THEN key ELSE getKeyFromEntity(kp, new)
         IN  IF newKey = key
             THEN StoreResult(NoError, InsertRow(RemoveRow(table, key), Row(key, new)), next, key, IF new = old /\ mode = "strict" THEN 0 ELSE 1)
             ELSE IF mode = "strict" \/ ~ValidKey(newKey) \/ HasKey(table, newKey) THEN StoreResult("ModifyError", table, next, key, 0)
             ELSE StoreResult(NoError, InsertRow(RemoveRow(table, key), Row(newKey, new)), nextAfter(auto, next, newKey), newKey, 1)

\* Table.delete(key)
tableDelete(table, key) == IF ~ValidKey(key) THEN StoreResult("DataError", table, 0, key, 0) ELSE StoreResult(NoError, RemoveRow(table, key), 0, key, 0)

\* Table.bulkDelete(keys)
tableBulkDelete(table, keys) == SelectSeq(table, LAMBDA r : \A i \in 1..Len(keys) : keys[i] # r.key)

(***************************************************************************)
(* clients/prisma.service.ts: PrismaService.  Each operator is one call    *)
(* run to its end: the table it leaves, and what it returns or throws.     *)
(***************************************************************************)
UpdateNotFound == "Record to update not found."

UpdateNoKey == "Unable to resolve primary key for update."

DeleteNotFound == "Record to delete not found."

DeleteNoKey == "Unable to resolve primary key for delete."

\* what a call leaves and returns: the error thrown, the table, the key generator, whether
\* a record is returned and which, the count returned, and the store updates it made
Returned(err, table, next, found, value, count, log) == [err |-> err, rows |-> table, nextKey |-> next, found |-> found, value |-> value, count |-> count, log |-> log]

\* collectionForWhere(table, where).toArray()
toArray(table, where) == SelectSeq(Values(table), LAMBDA v : buildPredicate(where, v))

\* findUnique
findUnique(table, kp, where) ==
    LET key == tryBuildKeyFromWhere(kp, where)
        got == tableGet(table, key)
        matching == toArray(table, where)
    IN  IF key # NoKey THEN [err |-> got.err, found |-> got.found, value |-> got.value]
        ELSE IF matching = <<>> THEN [err |-> NoError, found |-> FALSE, value |-> NoRecord]
        ELSE [err |-> NoError, found |-> TRUE, value |-> Head(matching)]

\* findFirst without an orderBy
findFirst(table, where) ==
    LET arr == toArray(table, where)
    IN  IF arr = <<>> THEN [found |-> FALSE, value |-> NoRecord] ELSE [found |-> TRUE, value |-> Head(arr)]

\* create
create(table, kp, auto, next, data) ==
    LET added == tableAdd(table, kp, auto, next, data)
        created == tableGet(added.rows, added.key)
    IN  IF added.err # NoError THEN Returned(added.err, table, next, FALSE, NoRecord, 0, <<>>)
        ELSE Returned(NoError, added.rows, added.nextKey, TRUE, IF created.found THEN created.value ELSE data, 0, <<>>)

\* the fallback loop of createMany: the items added one by one, the failing ones skipped
RECURSIVE addEach(_, _, _, _, _)
addEach(table, kp, auto, next, items) ==
    IF items = <<>> THEN StoreResult(NoError, table, next, NoKey, 0)
    ELSE LET r == tableAdd(table, kp, auto, next, Head(items))
             rest == addEach(r.rows, kp, auto, r.nextKey, Tail(items))
         IN  StoreResult(NoError, rest.rows, rest.nextKey, NoKey, rest.n + r.n)

\* a createMany whose fallback reports the size of the batch
createMany_countsBatch(table, kp, auto, next, data) ==
    LET bulk == tableBulkAdd(table, kp, auto, next, data)
        each == addEach(table, kp, auto, next, data)
    IN  IF bulk.err = NoError THEN Returned(NoError, bulk.rows, bulk.nextKey, FALSE, NoRecord, Len(data), <<>>)
        ELSE Returned(NoError, each.rows, each.nextKey, FALSE, NoRecord, Len(data), <<>>)

\* createMany
createMany(table, kp, auto, next, data) ==
    LET bulk == tableBulkAdd(table, kp, auto, next, data)
        each == addEach(table, kp, auto, next, data)
    IN  IF data = <<>> THEN Returned(NoError, table, next, FALSE, NoRecord, 0, <<>>)
        ELSE IF bulk.err = NoError THEN Returned(NoError, bulk.rows, bulk.nextKey, FALSE, NoRecord, Len(data), <<>>)
        ELSE Returned(NoError, each.rows, each.nextKey, FALSE, NoRecord, each.n, <<>>)

\* update
update(table, kp, auto, next, mode, where, data) ==
    LET key == tryBuildKeyFromWhere(kp, where)
        byKey == tableUpdate(table, kp, auto, next, mode, key, data)
        updated == tableGet(byKey.rows, key)
        existing == findFirst(table, where)
        exKey == getKeyFromEntity(kp, existing.value)
        byExKey == tableUpdate(table, kp, auto, next, mode, exKey, data)
        reread == tableGet(byExKey.rows, exKey)
    IN  IF key # NoKey
        THEN IF byKey.err # NoError THEN Returned(byKey.err, byKey.rows, byKey.nextKey, FALSE, NoRecord, 0, <<>>)
             ELSE IF updated.found THEN Returned(NoError, byKey.rows, byKey.nextKey, TRUE, updated.value, 0, <<>>)
             ELSE Returned(UpdateNotFound, byKey.rows, byKey.nextKey, FALSE, NoRecord, 0, <<>>)
        ELSE IF ~existing.found THEN Returned(UpdateNotFound, table, next, FALSE, NoRecord, 0, <<>>)
        ELSE IF exKey = NoKey THEN Returned(UpdateNoKey, table, next, FALSE, NoRecord, 0, <<>>)
        ELSE IF byExKey.err # NoError THEN Returned(byExKey.err, byExKey.rows, byExKey.nextKey, FALSE, NoRecord, 0, <<>>)
        ELSE Returned(NoError, byExKey.rows, byExKey.nextKey, TRUE, IF reread.found THEN reread.value ELSE data @@ existing.value, 0, <<>>)

\* an updateMany that hands every matched record the first patch
patchFor_first(data, i) == IF data = <<>> THEN NoRecord ELSE data[1]

\* the patch of the i-th matched record (i from 0): lines 334 and 345
patchFor(data, i) == IF Len(data) <= 1 THEN (IF data = <<>> THEN NoRecord ELSE data[1]) ELSE data[(IF i < Len(data) - 1 THEN i ELSE Len(data) - 1) + 1]

\* the loops of updateMany from the i-th item on: the table, the count and the store
\* updates made; a store update that throws ends the call
RECURSIVE updateEach(_, _, _, _, _, _, _, _)
updateEach(table, kp, auto, next, mode, items, data, i) ==
    IF i >= Len(items) THEN Returned(NoError, table, next, FALSE, NoRecord, 0, <<>>)
    ELSE LET patch == patchFor(data, i)
             key == getKeyFromEntity(kp, items[i + 1])
             r == tableUpdate(table, kp, auto, next, mode, key, patch)
             rest == updateEach(r.rows, kp, auto, r.nextKey, mode, items, data, i + 1)
         IN  IF key = NoKey THEN updateEach(table, kp, auto, next, mode, items, data, i + 1)
             ELSE IF r.err # NoError THEN Returned(r.err, r.rows, r.nextKey, FALSE, NoRecord, 0, <<>>)
             ELSE Returned(rest.err, rest.rows, rest.nextKey, FALSE, NoRecord, IF rest.err = NoError THEN rest.count + r.n ELSE 0, << <<i, key, patch, r.n>> >> \o rest.log)

\* updateMany
updateMany(table, kp, auto, next, mode, where, data) == updateEach(table, kp, auto, next, mode, toArray(table, where), data, 0)

\* delete
delete_keepsRecord(table, kp, where) ==
    LET target == findUnique(table, kp, where)
    IN  IF target.err # NoError THEN Returned(target.err, table, 0, FALSE, NoRecord, 0, <<>>)
        ELSE IF ~target.found THEN Returned(DeleteNotFound, table, 0, FALSE, NoRecord, 0, <<>>)
        ELSE Returned(NoError, table, 0, TRUE, target.value, 0, <<>>)

delete(table, kp, where) ==
    LET target == findUnique(table, kp, where)
        probe == tryBuildKeyFromWhere(kp, where)
        key == IF probe # NoKey THEN probe ELSE getKeyFromEntity(kp, target.value)
        removed == tableDelete(table, key)
    IN  IF target.err # NoError THEN Returned(target.err, table, 0, FALSE, NoRecord, 0, <<>>)
        ELSE IF ~target.found THEN Returned(DeleteNotFound, table, 0, FALSE, NoRecord, 0, <<>>)
        ELSE IF key = NoKey THEN Returned(DeleteNoKey, table, 0, FALSE, NoRecord, 0, <<>>)
        ELSE IF removed.err # NoError THEN Returned(removed.err, table, 0, FALSE, NoRecord, 0, <<>>)
        ELSE Returned(NoError, removed.rows, 0, TRUE, target.value, 0, <<>>)

\* the keys deleteMany collects: those of the items whose key resolves
resolvedKeys(kp, items) == SelectSeq([i \in 1..Len(items) |-> getKeyFromEntity(kp, items[i])], LAMBDA k : k # NoKey)

\* deleteMany
deleteMany_countsMatched(table, kp, where) ==
    LET items == toArray(table, where)
    IN  Returned(NoError, tableBulkDelete(table, resolvedKeys(kp, items)), 0, FALSE, NoRecord, Len(items), <<>>)

deleteMany(table, kp, where) ==
    LET items == toArray(table, where)
        keys == resolvedKeys(kp, items)
    IN  IF items = <<>> THEN Returned(NoError, table, 0, FALSE, NoRecord, 0, <<>>)
        ELSE Returned(NoError, tableBulkDelete(table, keys), 0, FALSE, NoRecord, Len(keys), <<>>)

\* count
count(table, where) == Len(toArray(table, where))

(***************************************************************************)
(* Actions of the registry.                                                *)
(***************************************************************************)
Call(op, target, name, err) == [op |-> op, target |-> target, name |-> name, err |-> err]

LogEntry(op, target, name, options) == [op |-> op, target |-> target, name |-> name, options |-> options]

\* addEntity(target, name) leaving the log alone
RegAddEntity(target, name) ==
    /\ nCalls < MaxCalls
    /\ LET o == addEntity(sealed, byCtor, byTable, target, name)
       IN  /\ byCtor' = o.byCtor
           /\ byTable' = o.byTable
           /\ ret' = Call("addEntity", target, name, o.err)
           /\ explicitName' = IF o.err = NoError /\ name \notin {Undefined, ""} THEN (target :> name) @@ explicitName ELSE explicitName
    /\ nCalls' = nCalls + 1
    /\ UNCHANGED <<sealed, dbVars, storeVars, verVars, keyVars, predVars, crudVars, ordVars, raceVars>>

\* addColumn(target, key, options) leaving the log alone
RegAddColumn(target, key, options) ==
    /\ nCalls < MaxCalls
    /\ LET o == addColumn(sealed, byCtor, byTable, target, key, options)
       IN  /\ byCtor' = o.byCtor
           /\ byTable' = o.byTable
           /\ ret' = Call("addColumn", target, Undefined, o.err)
    /\ nCalls' = nCalls + 1
    /\ UNCHANGED <<sealed, explicitName, dbVars, storeVars, verVars, keyVars, predVars, crudVars, ordVars, raceVars>>

AddEntity(target, name) == RegAddEntity(target, name) /\ UNCHANGED calls

AddColumn(target, key, options) == RegAddColumn(target, key, options) /\ UNCHANGED calls

\* sealRegistry()
SealRegistry ==
    /\ ~sealed
    /\ sealed' = TRUE
    /\ ret' = Call("sealRegistry", Undefined, Undefined, NoError)
    /\ UNCHANGED <<byCtor, byTable, nCalls, explicitName, calls, dbVars, storeVars, verVars, keyVars, predVars, crudVars, ordVars, raceVars>>

\* resetRegistry()
ResetRegistry ==
    /\ nCalls < MaxCalls
    /\ byCtor # <<>> \/ sealed
    /\ byCtor' = <<>>
    /\ byTable' = <<>>
    /\ sealed' = FALSE
    /\ explicitName' = <<>>
    /\ ret' = Call("resetRegistry", Undefined, Undefined, NoError)
    /\ nCalls' = nCalls + 1
    /\ UNCHANGED <<calls, dbVars, storeVars, verVars, keyVars, predVars, crudVars, ordVars, raceVars>>

\* resolveEntity(getEntityMeta(target)) for a registered target
ResolveEntity(target) ==
    /\ target \in DOMAIN byCtor
    /\ ret' = Call("resolveEntity", target, Undefined, resolveEntity(byCtor, target).err)
    /\ UNCHANGED <<byCtor, byTable, sealed, nCalls, explicitName, calls, dbVars, storeVars, verVars, keyVars, predVars, crudVars, ordVars, raceVars>>

\* buildSchema()
BuildSchema ==
    /\ ret' = Call("buildSchema", Undefined, Undefined, buildSchema(byCtor, byTable).err)
    /\ UNCHANGED <<byCtor, byTable, sealed, nCalls, explicitName, calls, dbVars, storeVars, verVars, keyVars, predVars, crudVars, ordVars, raceVars>>

NameInputs == ExplicitNames \cup {Undefined}

RegistryInit ==
    /\ byCtor = <<>>
    /\ byTable = <<>>
    /\ sealed = FALSE
    /\ ret = Call("new", Undefined, Undefined, NoError)
    /\ nCalls = 0
    /\ explicitName = <<>>
    /\ calls = <<>>

DatabaseIdle ==
    /\ initialized = FALSE
    /\ dbState = "closed"
    /\ declared = [version |-> 0, schema |-> <<>>]
    /\ initPc = <<"idle", "idle">>

StoreIdle ==
    /\ window = TRUE
    /\ item = AbsentItem
    /\ nWrites = 0

VersionIdle ==
    /\ lastVersion = 0
    /\ lastSchema = <<>>

KeyIdle ==
    /\ keyPath = NoKeyPath
    /\ whereArg = NoWhere
    /\ keyResult = NoKey
    /\ keyPc = "idle"

PredIdle ==
    /\ record = NoRecord
    /\ matched = FALSE
    /\ predPc = "idle"

CrudIdle ==
    /\ rows = <<>>
    /\ autoInc = FALSE
    /\ nextKey = 1
    /\ res = [op |-> "none"]
    /\ before = <<>>
    /\ nOps = 0
    /\ storeMode = "rekey"

OrdIdle ==
    /\ orderBy = <<>>
    /\ operands = <<>>
    /\ cmpResult = <<>>
    /\ ordPc = "idle"
    /\ tasks = <<>>

Init == RegistryInit /\ DatabaseIdle /\ StoreIdle /\ VersionIdle /\ KeyIdle /\ PredIdle /\ CrudIdle /\ OrdIdle

Next ==
    \/ \E t \in EntityTargets, n \in NameInputs : AddEntity(t, n)
    \/ \E t \in Ctors, k \in PropertyKeys, o \in OptionInputs : AddColumn(t, k, o)
    \/ AddColumn(InvalidTarget, "id", NoOptions)
    \/ SealRegistry
    \/ ResetRegistry
    \/ \E t \in Ctors : ResolveEntity(t)
    \/ BuildSchema

\* the registry under any sequence of calls of its exported functions
Spec == Init /\ [][Next]_vars

(***************************************************************************)
(* core/database.ts: Database.init().  The constructor issues init call 1; *)
(* call 2 is an explicit init() by the application.  A call runs without   *)
(* interruption up to `await this.open()` and resumes in a later task.     *)
(***************************************************************************)
InitCalls == {1, 2}

\* `if (this.initialized) return;`
InitReturnEarly(p) ==
    /\ initPc[p] = "idle"
    /\ initialized
    /\ initPc' = [initPc EXCEPT ![p] = "done"]
    /\ ret' = Call("init", Undefined, Undefined, NoError)
    /\ UNCHANGED <<byCtor, byTable, sealed, nCalls, explicitName, calls, initialized, dbState, declared, storeVars, verVars, keyVars, predVars, crudVars, ordVars, raceVars>>

\* buildSchema() throws: the call ends before getVersion
InitBuildThrows(p) ==
    /\ initPc[p] = "idle"
    /\ ~initialized
    /\ buildSchema(byCtor, byTable).err # NoError
    /\ initPc' = [initPc EXCEPT ![p] = "threw"]
    /\ ret' = Call("init", Undefined, Undefined, buildSchema(byCtor, byTable).err)
    /\ UNCHANGED <<byCtor, byTable, sealed, nCalls, explicitName, calls, initialized, dbState, declared, storeVars, verVars, keyVars, predVars, crudVars, ordVars, raceVars>>

\* lines 17-19 when dexie's version() refuses a database that is open or being opened
InitVersionThrows(p) ==
    /\ initPc[p] = "idle"
    /\ ~initialized
    /\ dbState \in {"opening", "open"}
    /\ LET built == buildSchema(byCtor, byTable)
           v == getVersion(window, item, built.schema)
       IN  /\ built.err = NoError
           /\ item' = v.item
           /\ nWrites' = IF v.wrote THEN nWrites + 1 ELSE nWrites
    /\ initPc' = [initPc EXCEPT ![p] = "threw"]
    /\ ret' = Call("init", Undefined, Undefined, "Cannot add version when database is open")
    /\ UNCHANGED <<byCtor, byTable, sealed, nCalls, explicitName, calls, initialized, dbState, declared, window, verVars, keyVars, predVars, crudVars, ordVars, raceVars>>

\* the order of lines 17-23: declare, seal, then start to open
sealThenOpen(state) == [sealed |-> TRUE, dbState |-> IF state \in {"closed", "failed"} THEN "opening" ELSE state]

\* lines 17-23: buildSchema, getVersion, version().stores(), sealRegistry(), open() up to the await
InitOpen(p) ==
    /\ initPc[p] = "idle"
    /\ ~initialized
    /\ LET built == buildSchema(byCtor, byTable)
           v == getVersion(window, item, built.schema)
           after == sealThenOpen(dbState)
       IN  /\ built.err = NoError
           /\ item' = v.item
           /\ nWrites' = IF v.wrote THEN nWrites + 1 ELSE nWrites
           /\ declared' = [version |-> v.version, schema |-> built.schema]
           /\ sealed' = after.sealed
           /\ dbState' = after.dbState
           /\ initPc' = [initPc EXCEPT ![p] = IF after.dbState = "open" THEN "resolved" ELSE "awaitOpen"]
    /\ ret' = Call("init", Undefined, Undefined, NoError)
    /\ UNCHANGED <<byCtor, byTable, nCalls, explicitName, calls, initialized, window, verVars, keyVars, predVars, crudVars, ordVars, raceVars>>

\* the store opens: every pending open() promise resolves
OpenSucceeds ==
    /\ dbState = "opening"
    /\ dbState' = "open"
    /\ initPc' = [p \in InitCalls |-> IF initPc[p] = "awaitOpen" THEN "resolved" ELSE initPc[p]]
    /\ UNCHANGED <<regVars, calls, initialized, declared, storeVars, verVars, keyVars, predVars, crudVars, ordVars, raceVars>>

\* the store fails to open: every pending open() promise rejects
OpenFails ==
    /\ dbState = "opening"
    /\ dbState' = "failed"
    /\ initPc' = [p \in InitCalls |-> IF initPc[p] = "awaitOpen" THEN "rejected" ELSE initPc[p]]
    /\ UNCHANGED <<regVars, calls, initialized, declared, storeVars, verVars, keyVars, predVars, crudVars, ordVars, raceVars>>

\* line 24, after the await
InitResume(p) ==
    /\ initPc[p] = "resolved"
    /\ initialized' = TRUE
    /\ initPc' = [initPc EXCEPT ![p] = "done"]
    /\ UNCHANGED <<regVars, calls, dbState, declared, storeVars, verVars, keyVars, predVars, crudVars, ordVars, raceVars>>

\* the await throws: init() rejects
InitRejected(p) ==
    /\ initPc[p] = "rejected"
    /\ initPc' = [initPc EXCEPT ![p] = "threw"]
    /\ UNCHANGED <<regVars, calls, initialized, dbState, declared, storeVars, verVars, keyVars, predVars, crudVars, ordVars, raceVars>>

\* the items localStorage may hold when the page loads
StoredItems == {AbsentItem, CorruptItem, JsonRecord(2, JsonText(<< <<"A", "id">> >>))}

\* the registrations made next to a database: a class is named or not, a column is primary or not
DbNameInputs == {Undefined, "X"}

DbOptionInputs == {NoOptions, [primary |-> TRUE]}

DbInit ==
    /\ RegistryInit
    /\ DatabaseIdle
    /\ window \in BOOLEAN
    /\ item \in StoredItems
    /\ nWrites = 0
    /\ VersionIdle
    /\ KeyIdle
    /\ PredIdle
    /\ CrudIdle
    /\ OrdIdle

DbNext ==
    \/ \E t \in EntityTargets, n \in DbNameInputs : nCalls < MaxDbCalls /\ AddEntity(t, n)
    \/ \E t \in Ctors, k \in PropertyKeys, o \in DbOptionInputs : nCalls < MaxDbCalls /\ AddColumn(t, k, o)
    \/ nCalls < MaxDbCalls /\ ResetRegistry
    \/ \E p \in InitCalls : InitReturnEarly(p)
    \/ \E p \in InitCalls : InitBuildThrows(p)
    \/ \E p \in InitCalls : InitVersionThrows(p)
    \/ \E p \in InitCalls : InitOpen(p)
    \/ OpenSucceeds
    \/ OpenFails
    \/ \E p \in InitCalls : InitResume(p)
    \/ \E p \in InitCalls : InitRejected(p)

\* one Database instance over the registry and localStorage
SpecDb == DbInit /\ [][DbNext]_vars

(***************************************************************************)
(* getVersion on its own: any sequence of calls for one database name.     *)
(***************************************************************************)
\* schemas handed to getVersion; the last two hold the same entries in a different key order
SchemaInputs == { <<>>, << <<"A", "++id">> >>, << <<"A", "++id, k">> >>, << <<"A", "id">>, <<"B", "k">> >>, << <<"B", "k">>, <<"A", "id">> >> }

\* getVersion(dbName, schema)
GetVersion(schema) ==
    /\ loadStoredVersion(window, item).version < MaxVersion
    /\ LET v == getVersion(window, item, schema)
       IN  /\ item' = v.item
           /\ nWrites' = IF v.wrote THEN nWrites + 1 ELSE nWrites
           /\ lastVersion' = v.version
    /\ lastSchema' = schema
    /\ UNCHANGED <<regVars, calls, dbVars, window, keyVars, predVars, crudVars, ordVars, raceVars>>

\* what earlier runs of getVersion may have left in localStorage: nothing, an unreadable text, or a record
VersionItems == {AbsentItem, CorruptItem} \cup { JsonRecord(v, computeSignature(schema)) : v \in 2..3, schema \in SchemaInputs }

VersionInit ==
    /\ RegistryInit
    /\ DatabaseIdle
    /\ window \in BOOLEAN
    /\ item \in VersionItems
    /\ nWrites = 0
    /\ VersionIdle
    /\ KeyIdle
    /\ PredIdle
    /\ CrudIdle
    /\ OrdIdle

VersionNext == \E schema \in SchemaInputs : GetVersion(schema)

SpecVersion == VersionInit /\ [][VersionNext]_vars

(***************************************************************************)
(* The registry calls of a program, made in any order.                     *)
(***************************************************************************)
PermAddEntity(target, name) ==
    /\ Len(calls) < MaxPermCalls
    /\ RegAddEntity(target, name)
    /\ calls' = Append(calls, LogEntry("addEntity", target, name, NoOptions))

PermAddColumn(target, key, options) ==
    /\ Len(calls) < MaxPermCalls
    /\ RegAddColumn(target, key, options)
    /\ calls' = Append(calls, LogEntry("addColumn", target, key, options))

PermNext ==
    \/ \E t \in EntityTargets, n \in NameInputs : PermAddEntity(t, n)
    \/ \E t \in Ctors, k \in PropertyKeys, o \in OptionInputs : PermAddColumn(t, k, o)

SpecPerm == Init /\ [][PermNext]_vars

(***************************************************************************)
(* tryBuildKeyFromWhere on its own.                                        *)
(***************************************************************************)
FieldNames == {"id", "a", "b"}

KeyPathInputs == {NoKeyPath, SimpleKeyPath("id"), CompoundKeyPath(<<"a", "b">>)}

FilterInputs == { Literal(Num(1)), Literal(Undef), Literal(Date(1)), Object(<<>>), Object([equals |-> Num(1)]), Object([gt |-> Num(0)]), Object([equals |-> Num(1), gt |-> Num(0)]) }

WhereInputs == {NoWhere} \cup { Where(f, l) : f \in UNION { [S -> FilterInputs] : S \in SUBSET FieldNames }, l \in {<<>>, [AND |-> List(<<>>)]} }

KeyInit ==
    /\ RegistryInit
    /\ DatabaseIdle
    /\ StoreIdle
    /\ VersionIdle
    /\ keyPath \in KeyPathInputs
    /\ whereArg \in WhereInputs
    /\ keyResult = NoKey
    /\ keyPc = "call"
    /\ PredIdle
    /\ CrudIdle
    /\ OrdIdle

\* const key = tryBuildKeyFromWhere(this.table, args.where)
TryBuildKey ==
    /\ keyPc = "call"
    /\ keyResult' = tryBuildKeyFromWhere(keyPath, whereArg)
    /\ keyPc' = "done"
    /\ UNCHANGED <<regVars, calls, dbVars, storeVars, verVars, keyPath, whereArg, predVars, crudVars, ordVars, raceVars>>

KeyNext == TryBuildKey

SpecKey == KeyInit /\ [][KeyNext]_vars

(***************************************************************************)
(* buildPredicate on its own: a where-condition applied to one record.     *)
(***************************************************************************)
Alice == Str(<<"A", "l">>)

Bob == Str(<<"b", "o", "b">>)

\* records with a number or a Date under `a` and a string under `s`, and the empty record
PredRecords == { [a |-> n, s |-> st] : n \in {Num(0), Num(1), Num(2), Date(1)}, st \in {Alice, Bob} } \cup {NoRecord}

\* field filters: literals, and objects of one or two operators
PredFilters == { Literal(Num(1)), Literal(Date(1)), Object(<<>>), Object([equals |-> Num(1)]), Object([gte |-> Num(1), lt |-> Num(2)]), Object([gt |-> Num(0), lte |-> Num(1)]), Object([in |-> Array(<<Num(0), Num(2)>>)]), Object([notIn |-> Array(<<Num(0)>>)]), Object([not |-> Literal(Num(1))]), Object([not |-> Object([gt |-> Num(1)])]), Object([unknown |-> Num(2)]) }

StringFilters == { Literal(Alice), Object([startsWith |-> Str(<<"A">>)]), Object([endsWith |-> Str(<<"b">>)]), Object([contains |-> Str(<<"o">>)]) }

\* the field-level entries of a condition: none, a filter on `a`, a filter on `s`
PredFields == {<<>>} \cup { [a |-> f] : f \in PredFilters } \cup { [s |-> f] : f \in StringFilters }

\* sub-conditions: three of fields only, one that nests a NOT
SubConditions == { Where([a |-> Literal(Num(1))], <<>>), Where([s |-> Object([startsWith |-> Str(<<"A">>)])], <<>>), Where(<<>>, [NOT |-> Single(Where([a |-> Object([gte |-> Num(1)])], <<>>))]) }

\* the values of AND and NOT: a list of zero, one or two conditions, or a single condition
NodeInputs == {List(<<>>)} \cup { List(<<c>>) : c \in SubConditions } \cup { List(<<q[1], q[2]>>) : q \in { r \in SubConditions \X SubConditions : r[1] # r[2] } } \cup { Single(c) : c \in SubConditions }

\* the values of OR: a list
OrInputs == { n \in NodeInputs : n.list }

\* the logical keys of a condition, each present or not
LogicalInputs == { l \in UNION { [S -> NodeInputs] : S \in SUBSET {"AND", "OR", "NOT"} } : "OR" \in DOMAIN l => l["OR"] \in OrInputs }

PredWhereInputs == {NoWhere} \cup { Where(f, l) : f \in PredFields, l \in LogicalInputs }

PredInit ==
    /\ RegistryInit
    /\ DatabaseIdle
    /\ StoreIdle
    /\ VersionIdle
    /\ keyPath = NoKeyPath
    /\ whereArg \in PredWhereInputs
    /\ keyResult = NoKey
    /\ keyPc = "idle"
    /\ record \in PredRecords
    /\ matched = FALSE
    /\ predPc = "call"
    /\ CrudIdle
    /\ OrdIdle

\* pred(item), for pred = buildPredicate(where)
ApplyPredicate ==
    /\ predPc = "call"
    /\ matched' = buildPredicate(whereArg, record)
    /\ predPc' = "done"
    /\ UNCHANGED <<regVars, calls, dbVars, storeVars, verVars, keyVars, record, crudVars, ordVars, raceVars>>

PredNext == ApplyPredicate

SpecPred == PredInit /\ [][PredNext]_vars

(***************************************************************************)
(* clients/prisma.service.ts: the comparator compiled from an orderBy       *)
(***************************************************************************)
\* no orderBy argument
NoOrderBy == [list |-> FALSE, subs |-> <<>>]

\* lines 25-38
compareUnknown(a, b, dir) ==
    LET direction == IF dir = "desc" THEN 0 - 1 ELSE 1
    IN  IF StrictEquals(a, b) THEN 0
        ELSE IF a = Undef THEN (0 - 1) * direction
        ELSE IF b = Undef THEN direction
        ELSE IF a = Null THEN (0 - 1) * direction
        ELSE IF b = Null THEN direction
        ELSE IF JsLess(b, a) THEN direction
        ELSE IF JsLess(a, b) THEN (0 - 1) * direction
        ELSE 0

\* lines 45-50: the entries of the mappings in order, those without a direction skipped
RECURSIVE orderParts(_)
orderParts(entries) ==
    IF entries = <<>> THEN <<>>
    ELSE IF Head(entries)[2] = "none" THEN orderParts(Tail(entries))
    ELSE <<[key |-> Head(entries)[1], dir |-> Head(entries)[2]]>> \o orderParts(Tail(entries))

RECURSIVE allEntries(_)
allEntries(list) == IF list = <<>> THEN <<>> ELSE Head(list) \o allEntries(Tail(list))

normalizeOrderBy(ob) == orderParts(allEntries(ob.subs))

\* lines 58-65: the first part whose comparison is not 0 decides
RECURSIVE compareParts(_, _, _)
compareParts(parts, a, b) ==
    IF parts = <<>> THEN 0
    ELSE LET cmp == compareUnknown(Field(a, Head(parts).key), Field(b, Head(parts).key), Head(parts).dir)
         IN  IF cmp # 0 THEN cmp ELSE compareParts(Tail(parts), a, b)

\* toComparator: undefined without parts
hasComparator(ob) == normalizeOrderBy(ob) # <<>>

comparator(ob, a, b) == compareParts(normalizeOrderBy(ob), a, b)

\* records whose field x is undefined, null, a number or a string
OrderRecords == { [y |-> w] : w \in {Num(1), Num(2)} } \cup { [x |-> v, y |-> w] : v \in {Null, Num(1), Num(2), Str(<<"A">>), Str(<<"b">>)}, w \in {Num(1), Num(2)} }

\* orderBy arguments: none, one mapping, a mapping without a direction, lists
OrderByInputs == {
    NoOrderBy,
    Single(<< <<"x", "asc">> >>),
    Single(<< <<"x", "desc">> >>),
    Single(<< <<"x", "none">> >>),
    Single(<< <<"x", "asc">>, <<"y", "desc">> >>),
    List(<< << <<"x", "desc">> >>, << <<"y", "asc">> >> >>),
    List(<< << <<"y", "asc">> >>, << <<"x", "asc">> >> >>),
    List(<<>>) }

OrdInit ==
    /\ RegistryInit
    /\ DatabaseIdle
    /\ StoreIdle
    /\ VersionIdle
    /\ KeyIdle
    /\ PredIdle
    /\ CrudIdle
    /\ orderBy \in OrderByInputs
    /\ operands \in OrderRecords \X OrderRecords \X OrderRecords
    /\ cmpResult = <<>>
    /\ ordPc = "call"
    /\ tasks = <<>>

\* the comparator applied to every pair of the operands, as Array.prototype.sort may
Compare ==
    /\ ordPc = "call"
    /\ hasComparator(orderBy)
    /\ cmpResult' = [p \in (1..3) \X (1..3) |-> comparator(orderBy, operands[p[1]], operands[p[2]])]
    /\ ordPc' = "done"
    /\ UNCHANGED <<regVars, calls, dbVars, storeVars, verVars, keyVars, predVars, crudVars, orderBy, operands, raceVars>>

\* without a comparator the array is not sorted
NoSort ==
    /\ ordPc = "call"
    /\ ~hasComparator(orderBy)
    /\ ordPc' = "done"
    /\ UNCHANGED <<regVars, calls, dbVars, storeVars, verVars, keyVars, predVars, crudVars, orderBy, operands, cmpResult, raceVars>>

OrdNext == Compare \/ NoSort

SpecOrder == OrdInit /\ [][OrdNext]_vars

(***************************************************************************)
(* The query service over one table: any sequence of its calls, each run   *)
(* to its end before the next begins.                                      *)
(***************************************************************************)
\* a table as the service finds it: key path, auto-increment flag, key generator, entries
Table(kp, auto, next, values, keys) == [keyPath |-> kp, autoInc |-> auto, nextKey |-> next, rows |-> [i \in 1..Len(values) |-> Row(keys[i], values[i])]]

\* an inbound table: every entry is stored under the key it carries
Inbound(kp, auto, next, values) == Table(kp, auto, next, values, [i \in 1..Len(values) |-> getKeyFromEntity(kp, values[i])])

\* the tables: `++id` empty and with two records, `id` with Date keys, `[a+b]`, and a
\* table without a key path whose entries were stored under the keys 1 and 2
TableInputs == {
    Inbound(SimpleKeyPath("id"), TRUE, 1, <<>>),
    Inbound(SimpleKeyPath("id"), TRUE, 3, << [id |-> Num(1), a |-> Num(1)], [id |-> Num(2), a |-> Num(2)] >>),
    Inbound(SimpleKeyPath("id"), FALSE, 1, << [id |-> Date(1), a |-> Num(1)] >>),
    Inbound(CompoundKeyPath(<<"a", "b">>), FALSE, 1, << [a |-> Num(1), b |-> Num(1)], [a |-> Num(1), b |-> Num(2)] >>),
    Table(NoKeyPath, FALSE, 1, << [a |-> Num(1)], [a |-> Num(2)] >>, << ScalarKey(Num(1)), ScalarKey(Num(2)) >>) }

\* the data of create and the items of createMany
DataInputs == { [a |-> Num(1)], [id |-> Num(1), a |-> Num(2)], [id |-> Num(3), a |-> Num(1)], [id |-> Date(2), a |-> Num(2)], [a |-> Num(2), b |-> Num(1)] }

\* batches: empty, one item, the same item twice, two items
BatchInputs == { <<>>, << [a |-> Num(1)] >>, << [id |-> Num(3), a |-> Num(1)], [id |-> Num(3), a |-> Num(2)] >>, << [id |-> Num(3), a |-> Num(1)], [id |-> Num(1), a |-> Num(2)] >>, << [a |-> Num(2), b |-> Num(1)], [a |-> Num(2), b |-> Num(2)] >> }

\* patches: empty, of a plain field, of the key field
PatchInputs == { NoRecord, [a |-> Num(1)], [a |-> Num(3)], [id |-> Num(3)] }

PatchListInputs == { <<>>, << [a |-> Num(3)] >>, << [a |-> Num(3)], [a |-> Num(4)] >>, << [a |-> Num(3)], [a |-> Num(1)] >>, << [a |-> Num(1)], NoRecord, [a |-> Num(5)] >>, << [id |-> Num(3)], [a |-> Num(3)] >> }

\* where arguments: none, probes of the key, probes with a further operator or a NOT,
\* filters of a plain field
CrudWhereInputs == {
    NoWhere,
    Where([id |-> Literal(Num(1))], <<>>),
    Where([id |-> Literal(Num(9))], <<>>),
    Where([id |-> Literal(Date(1))], <<>>),
    Where([id |-> Object([equals |-> Num(1)])], <<>>),
    Where([id |-> Object([equals |-> Num(1), gt |-> Num(1)])], <<>>),
    Where([id |-> Literal(Num(2))], [NOT |-> Single(Where([a |-> Literal(Num(2))], <<>>))]),
    Where([a |-> Literal(Num(1))], <<>>),
    Where([a |-> Object([gte |-> Num(1)])], <<>>),
    Where([a |-> Literal(Num(1)), b |-> Literal(Num(2))], <<>>),
    Where([a |-> Literal(Num(1)), b |-> Object([gt |-> Num(0)])], <<>>) }

CrudInit ==
    /\ RegistryInit
    /\ DatabaseIdle
    /\ StoreIdle
    /\ VersionIdle
    /\ PredIdle
    /\ OrdIdle
    /\ whereArg = NoWhere
    /\ keyResult = NoKey
    /\ keyPc = "idle"
    /\ \E tbl \in TableInputs :
        /\ keyPath = tbl.keyPath
        /\ autoInc = tbl.autoInc
        /\ nextKey = tbl.nextKey
        /\ rows = tbl.rows
        /\ before = tbl.rows
    /\ storeMode \in StoreModes
    /\ res = [op |-> "none"]
    /\ nOps = 0

\* a call of the service: what it was given and what it returned or threw
Done(op, where, data, r) == [op |-> op, where |-> where, data |-> data, err |-> r.err, found |-> r.found, value |-> r.value, count |-> r.count, log |-> r.log]

\* a call that leaves the key generator alone
Writes(op, where, data, r) ==
    /\ nOps < MaxOps
    /\ rows' = r.rows
    /\ before' = rows
    /\ res' = Done(op, where, data, r)
    /\ nOps' = nOps + 1
    /\ UNCHANGED <<regVars, calls, dbVars, storeVars, verVars, keyVars, predVars, autoInc, nextKey, storeMode, ordVars, raceVars>>

\* a call that may store a record under a new key
Adds(op, where, data, r) ==
    /\ nOps < MaxOps
    /\ rows' = r.rows
    /\ nextKey' = r.nextKey
    /\ before' = rows
    /\ res' = Done(op, where, data, r)
    /\ nOps' = nOps + 1
    /\ UNCHANGED <<regVars, calls, dbVars, storeVars, verVars, keyVars, predVars, autoInc, storeMode, ordVars, raceVars>>

Create(data) == Adds("create", NoWhere, data, create(rows, keyPath, autoInc, nextKey, data))

CreateMany(data) == Adds("createMany", NoWhere, data, createMany(rows, keyPath, autoInc, nextKey, data))

FindUnique(where) == Writes("findUnique", where, NoRecord, findUnique(rows, keyPath, where) @@ [rows |-> rows, count |-> 0, log |-> <<>>])

Update(where, data) == Adds("update", where, data, update(rows, keyPath, autoInc, nextKey, storeMode, where, data))

UpdateMany(where, data) == Adds("updateMany", where, data, updateMany(rows, keyPath, autoInc, nextKey, storeMode, where, data))

Delete(where) == Writes("delete", where, NoRecord, delete(rows, keyPath, where))

DeleteMany(where) == Writes("deleteMany", where, NoRecord, deleteMany(rows, keyPath, where))

Count(where) == Writes("count", where, NoRecord, Returned(NoError, rows, 0, FALSE, NoRecord, count(rows, where), <<>>))

CrudNext ==
    \/ \E d \in DataInputs : Create(d)
    \/ \E d \in BatchInputs : CreateMany(d)
    \/ \E w \in CrudWhereInputs \ {NoWhere} : FindUnique(w)
    \/ \E w \in CrudWhereInputs \ {NoWhere}, d \in PatchInputs : Update(w, d)
    \/ \E w \in CrudWhereInputs, d \in PatchListInputs : UpdateMany(w, d)
    \/ \E w \in CrudWhereInputs \ {NoWhere} : Delete(w)
    \/ \E w \in CrudWhereInputs : DeleteMany(w)
    \/ \E w \in CrudWhereInputs : Count(w)

SpecCrud == CrudInit /\ [][CrudNext]_vars

(***************************************************************************)
(* Two calls of the query service in flight on one table.  A call runs     *)
(* from one `await` of a store request to the next in one step; between    *)
(* two steps of a call the other call may take any number of its own.      *)
(***************************************************************************)
Tasks == {1, 2}

\* a call as issued: update(where, data), delete(where), upsert(where, create, update)
Task(op, where, data, payload) == [op |-> op, where |-> where, data |-> data, create |-> payload, pc |-> "issued", branch |-> op, fallback |-> FALSE, target |-> NoRecord, key |-> NoKey, hit |-> FALSE, err |-> NoError, found |-> FALSE, value |-> NoRecord]

\* the call returns value, or throws err
Finish(task, err, found, value) == [task EXCEPT !.pc = "done", !.err = err, !.found = found, !.value = value]

\* update up to its first await: lines 302-304, or 309
startUpdate(task, kp) ==
    LET key == tryBuildKeyFromWhere(kp, task.where)
    IN  [task EXCEPT !.branch = "update", !.key = key, !.pc = IF key # NoKey THEN "update" ELSE "findFirst"]

\* a call up to its first await
start(task, kp) == IF task.op = "update" THEN startUpdate(task, kp) ELSE [task EXCEPT !.pc = "findUnique"]

TaskInputs == {
    Task("update", Where([a |-> Literal(Num(1))], <<>>), [a |-> Num(3)], NoRecord),
    Task("update", Where([id |-> Literal(Num(1))], <<>>), [a |-> Num(3)], NoRecord),
    Task("delete", Where([id |-> Literal(Num(1))], <<>>), NoRecord, NoRecord),
    Task("delete", Where([a |-> Literal(Num(1))], <<>>), NoRecord, NoRecord),
    Task("upsert", Where([id |-> Literal(Num(3))], <<>>), [a |-> Num(3)], [id |-> Num(3), a |-> Num(1)]),
    Task("upsert", Where([a |-> Literal(Num(1))], <<>>), [a |-> Num(3)], [a |-> Num(1)]) }

RaceInit ==
    /\ RegistryInit
    /\ DatabaseIdle
    /\ StoreIdle
    /\ VersionIdle
    /\ PredIdle
    /\ whereArg = NoWhere
    /\ keyResult = NoKey
    /\ keyPc = "idle"
    /\ orderBy = <<>>
    /\ operands = <<>>
    /\ cmpResult = <<>>
    /\ ordPc = "idle"
    /\ \E tbl \in TableInputs :
        /\ keyPath = tbl.keyPath
        /\ autoInc = tbl.autoInc
        /\ nextKey = tbl.nextKey
        /\ rows = tbl.rows
        /\ before = tbl.rows
        /\ \E issued \in [Tasks -> TaskInputs] : tasks = [i \in Tasks |-> start(issued[i], tbl.keyPath)]
    /\ storeMode \in StoreModes
    /\ res = [op |-> "none"]
    /\ nOps = 0

\* one step of call i: the call as it stands afterwards, the table and the key generator
Resumes(i, task, table, next) ==
    /\ tasks' = [tasks EXCEPT ![i] = task]
    /\ rows' = table
    /\ nextKey' = next
    /\ UNCHANGED <<regVars, calls, dbVars, storeVars, verVars, keyVars, predVars, autoInc, res, before, nOps, storeMode, ordVars>>

\* update, lines 309-313: `await this.findFirst(...)` and what follows up to the next await
AwaitFindFirst(i) ==
    /\ tasks[i].pc = "findFirst"
    /\ LET existing == findFirst(rows, tasks[i].where)
           exKey == getKeyFromEntity(keyPath, existing.value)
       IN  Resumes(i, IF ~existing.found THEN Finish(tasks[i], UpdateNotFound, FALSE, NoRecord)
                      ELSE IF exKey = NoKey THEN Finish(tasks[i], UpdateNoKey, FALSE, NoRecord)
                      ELSE [tasks[i] EXCEPT !.target = existing.value, !.key = exKey, !.fallback = TRUE, !.pc = "update"], rows, nextKey)

\* update, lines 304 and 313: `await this.table.update(key, data)`
AwaitUpdate(i) ==
    /\ tasks[i].pc = "update"
    /\ LET r == tableUpdate(rows, keyPath, autoInc, nextKey, storeMode, tasks[i].key, tasks[i].data)
       IN  IF r.err # NoError THEN Resumes(i, Finish(tasks[i], r.err, FALSE, NoRecord), rows, nextKey)
           ELSE Resumes(i, [tasks[i] EXCEPT !.hit = HasKey(rows, tasks[i].key), !.pc = "get"], r.rows, r.nextKey)

\* update, lines 305-307 and 314-321, and create, lines 277-278: `await this.table.get(key)`
AwaitGet(i) ==
    /\ tasks[i].pc = "get"
    /\ LET got == tableGet(rows, tasks[i].key)
       IN  Resumes(i, IF got.found THEN Finish(tasks[i], NoError, TRUE, got.value)
                      ELSE IF tasks[i].branch = "create" THEN Finish(tasks[i], NoError, TRUE, tasks[i].create)
                      ELSE IF tasks[i].fallback THEN Finish(tasks[i], NoError, TRUE, tasks[i].data @@ tasks[i].target)
                      ELSE Finish(tasks[i], UpdateNotFound, FALSE, NoRecord), rows, nextKey)

\* delete, lines 365-369, and upsert, lines 359-361: `await this.findUnique(...)`
AwaitFindUnique(i) ==
    /\ tasks[i].pc = "findUnique"
    /\ LET target == findUnique(rows, keyPath, tasks[i].where)
           probe == tryBuildKeyFromWhere(keyPath, tasks[i].where)
           key == IF probe # NoKey THEN probe ELSE getKeyFromEntity(keyPath, target.value)
       IN  Resumes(i, IF target.err # NoError THEN Finish(tasks[i], target.err, FALSE, NoRecord)
                      ELSE IF tasks[i].op = "upsert" THEN (IF target.found THEN startUpdate(tasks[i], keyPath) ELSE [tasks[i] EXCEPT !.branch = "create", !.pc = "add"])
                      ELSE IF ~target.found THEN Finish(tasks[i], DeleteNotFound, FALSE, NoRecord)
                      ELSE IF key = NoKey THEN Finish(tasks[i], DeleteNoKey, FALSE, NoRecord)
                      ELSE [tasks[i] EXCEPT !.target = target.value, !.key = key, !.pc = "delete"], rows, nextKey)

\* delete, lines 370-371: `await this.table.delete(key)`
AwaitDelete(i) ==
    /\ tasks[i].pc = "delete"
    /\ LET r == tableDelete(rows, tasks[i].key)
       IN  IF r.err # NoError THEN Resumes(i, Finish(tasks[i], r.err, FALSE, NoRecord), rows, nextKey)
           ELSE Resumes(i, Finish([tasks[i] EXCEPT !.hit = HasKey(rows, tasks[i].key)], NoError, TRUE, tasks[i].target), r.rows, nextKey)

\* create, line 276: `await this.table.add(data)`
AwaitAdd(i) ==
    /\ tasks[i].pc = "add"
    /\ LET r == tableAdd(rows, keyPath, autoInc, nextKey, tasks[i].create)
       IN  IF r.err # NoError THEN Resumes(i, Finish(tasks[i], r.err, FALSE, NoRecord), rows, nextKey)
           ELSE Resumes(i, [tasks[i] EXCEPT !.key = r.key, !.pc = "get"], r.rows, r.nextKey)

RaceNext == \E i \in Tasks : AwaitFindFirst(i) \/ AwaitUpdate(i) \/ AwaitGet(i) \/ AwaitFindUnique(i) \/ AwaitDelete(i) \/ AwaitAdd(i)

SpecRace == RaceInit /\ [][RaceNext]_vars

(***************************************************************************)
(* Properties.                                                             *)
(***************************************************************************)
\* a step that is a call of addEntity or addColumn
RegistrationStep == nCalls' = nCalls + 1 /\ ret'.op \in {"addEntity", "addColumn"}

\* C1: once the registry is sealed, every addEntity and addColumn call throws and
\* leaves byCtor and byTable (so every table name and column list) as they were.
C1_SealedRegistryRejects == [][(sealed /\ RegistrationStep) => (ret'.err # NoError /\ byCtor' = byCtor /\ byTable' = byTable)]_vars

\* a sealed registry that holds an entity has just refused an addColumn call
C1_Witness == sealed /\ byCtor # <<>> /\ ret.op = "addColumn" /\ ret.err = "Registry is sealed"

\* C2: no two identities hold the same table name, byTable has exactly one entry per
\* descriptor, keyed by the descriptor's current name; a call that names an identity
\* without an error has given it that name, so one that would share a name has failed.
C2_TableNamesUnique ==
    /\ \A t1 \in DOMAIN byCtor, t2 \in DOMAIN byCtor : t1 # t2 => byCtor[t1].tableName # byCtor[t2].tableName
    /\ Len(byTable) = Cardinality(DOMAIN byCtor)
    /\ \A i \in 1..Len(byTable), j \in 1..Len(byTable) : byTable[i][1] = byTable[j][1] => i = j
    /\ \A t \in DOMAIN byCtor : \E i \in 1..Len(byTable) : byTable[i] = <<byCtor[t].tableName, t>>
    /\ (ret.op = "addEntity" /\ ret.err = NoError /\ ret.name \notin {Undefined, ""}) => (ret.target \in DOMAIN byCtor /\ byCtor[ret.target].tableName = ret.name)
    /\ (ret.op = "addColumn" /\ ret.err = NoError) => ret.target \in DOMAIN byCtor

\* two identities are registered and a call that would share a name has been refused
C2_Witness == Cardinality(DOMAIN byCtor) = 2 /\ ret.op = "addEntity" /\ ret.err = "Duplicate table name" /\ \E t \in DOMAIN byCtor : t # ret.target /\ byCtor[t].tableName = ret.name

\* C3: an entity that carries a name given explicitly by an earlier addEntity call is
\* never renamed: addEntity with another (non-empty) name throws and the name stays,
\* also when the explicit name equals the type's own default name.
C3_ExplicitNameNeverRenamed == [][\A t \in DOMAIN explicitName : (nCalls' = nCalls + 1 /\ ret'.op = "addEntity" /\ ret'.target = t /\ ret'.name \notin {Undefined, "", byCtor[t].tableName}) => (ret'.err # NoError /\ byCtor'[t].tableName = byCtor[t].tableName)]_vars

\* C4: every stored column satisfies autoIncrement => primary.
C4_AutoIncrementImpliesPrimary == \A t \in DOMAIN byCtor : \A i \in 1..Len(byCtor[t].columns) : Truthy(byCtor[t].columns[i].options, "autoIncrement") => Truthy(byCtor[t].columns[i].options, "primary")

\* C5: init() seals the registry only after the store has been opened: whenever the
\* registry is sealed, the open has completed.
C5_SealedOnlyAfterOpen == sealed => dbState = "open"

\* the record getVersion reads from localStorage: the stored one, or the default
StoredRecord == IF item.kind = "record" THEN [version |-> item.version, signature |-> item.signature] ELSE [version |-> 1, signature |-> EmptyString]

\* C6: with localStorage available, a getVersion call whose signature equals the stored
\* one returns the stored version and writes nothing; one whose signature differs
\* returns the stored version + 1 and stores it with the new signature; the returned
\* versions never decrease, and a repeated schema returns the same version.
C6_VersionSteps ==
    [][window =>
        /\ computeSignature(lastSchema') = StoredRecord.signature => (lastVersion' = StoredRecord.version /\ item' = item /\ nWrites' = nWrites)
        /\ computeSignature(lastSchema') # StoredRecord.signature => (lastVersion' = StoredRecord.version + 1 /\ item' = JsonRecord(StoredRecord.version + 1, computeSignature(lastSchema')) /\ nWrites' = nWrites + 1)
        /\ lastVersion' >= lastVersion
        /\ (lastVersion # 0 /\ lastSchema' = lastSchema) => lastVersion' = lastVersion
    ]_vars

\* a call has stored a new version, and the next call, with the same entries in another
\* key order, has returned that version without a write
C6_Witness == window /\ nWrites = 1 /\ lastVersion = item.version /\ lastSchema = << <<"B", "k">>, <<"A", "id">> >> /\ item.kind = "record" /\ item.version = 3

\* C7: without localStorage (no window), every getVersion call returns version 1.
C7_HeadlessReturnsOne == (~window /\ lastVersion # 0) => lastVersion = 1

\* one logged registry call applied to a registry that is not sealed
applyCall(bc, bt, c) == IF c.op = "addEntity" THEN addEntity(FALSE, bc, bt, c.target, c.name) ELSE addColumn(FALSE, bc, bt, c.target, c.name, c.options)

\* the calls of a log made in order from the empty registry; a call that throws ends the run
RECURSIVE replay(_, _, _)
replay(log, bc, bt) ==
    IF log = <<>> THEN Outcome(NoError, bc, bt)
    ELSE LET o == applyCall(bc, bt, Head(log))
         IN  IF o.err # NoError THEN o ELSE replay(Tail(log), o.byCtor, o.byTable)

Failed == [ok |-> FALSE, schema |-> {}, signature |-> EmptyString]

\* what a program that makes the calls of log and then builds its schema ends with:
\* a failure, or the table -> definition mapping and its signature
runOutcome(log) ==
    LET r == replay(log, <<>>, <<>>)
        built == buildSchema(r.byCtor, r.byTable)
    IN  IF r.err # NoError \/ built.err # NoError THEN Failed
        ELSE [ok |-> TRUE, schema |-> { built.schema[i] : i \in 1..Len(built.schema) }, signature |-> computeSignature(built.schema)]

\* C8: the calls made so far, executed in any other order, end the same way: every
\* permutation fails or every permutation yields the same schema and signature.
C8_PermutationInvariant == \A p \in Permutations(1..Len(calls)) : runOutcome([i \in 1..Len(calls) |-> calls[p[i]]]) = runOutcome(calls)

\* the constructors above ctor in its prototype chain
StrictAncestors(ctor) == { prototypeChain(ctor)[i] : i \in 1..Len(prototypeChain(ctor)) } \ {ctor}

\* the constructors below ancestor in the chain of ctor, ctor included
Below(ancestor, ctor) == { c \in StrictAncestors(ctor) \cup {ctor} : ancestor \in StrictAncestors(c) }

\* ctor's own descriptor holds the column key, marked primary or not
Declares(ctor, key, primary) == ctor \in DOMAIN byCtor /\ \E i \in 1..Len(byCtor[ctor].columns) : byCtor[ctor].columns[i].propertyKey = key /\ Truthy(byCtor[ctor].columns[i].options, "primary") = primary

\* the last call resolved ctor, or built the schema, and did not throw
ResolvedWithoutError(ctor) == (ret.op = "resolveEntity" /\ ret.target = ctor /\ ret.err = NoError) \/ (ret.op = "buildSchema" /\ ret.err = NoError)

\* C9 as first stated: when an ancestor declares primary p and a descendant declares primary
\* q # p, resolveEntity on the descendant and buildSchema throw.
C9_DifferentPrimariesRejected == \A d \in Ctors : \A a \in StrictAncestors(d) : \A p \in PropertyKeys, q \in PropertyKeys : (p # q /\ Declares(a, p, TRUE) /\ Declares(d, q, TRUE)) => ~ResolvedWithoutError(d)

\* C9 as amended: ... and no entity below that ancestor in the chain, the descendant
\* included, declares p again as a non-primary column.
C9_UnshadowedPrimariesRejected == \A d \in Ctors : \A a \in StrictAncestors(d) : \A p \in PropertyKeys, q \in PropertyKeys : (p # q /\ Declares(a, p, TRUE) /\ Declares(d, q, TRUE) /\ \A m \in Below(a, d) : ~Declares(m, p, FALSE)) => ~ResolvedWithoutError(d)

\* Base declares primary id, B declares primary k, and resolving B has thrown
C9_Witness == Declares("Base", "id", TRUE) /\ Declares("B", "k", TRUE) /\ ret.op = "resolveEntity" /\ ret.target = "B" /\ ret.err = "Multiple primary columns across inheritance"

\* the where-condition is an exact primary-key probe: its field-level keys are the key
\* path's names, each filter a literal or an object whose only operator is equals
ExactKeyProbe == whereArg.present /\ keyPath.kind # "null" /\ DOMAIN whereArg.fields = { keyPath.path[i] : i \in 1..Len(keyPath.path) } /\ \A k \in DOMAIN whereArg.fields : (whereArg.fields[k].kind = "literal" /\ whereArg.fields[k].value # Undef) \/ (whereArg.fields[k].kind = "object" /\ DOMAIN whereArg.fields[k].ops = {"equals"})

\* C10: tryBuildKeyFromWhere returns a key only for an exact primary-key probe.
C10_KeyOnlyForExactProbe == (keyPc = "done" /\ keyResult # NoKey) => ExactKeyProbe

\* the sub-conditions under a logical key of the where argument, none when the key is absent
SubsOf(key) == IF whereArg.present /\ key \in DOMAIN whereArg.logical THEN whereArg.logical[key].subs ELSE <<>>

\* C18: a record matches iff every field-level filter holds, every sub-condition under
\* AND holds, at least one under a non-empty OR list holds, and none under NOT holds; an
\* absent where matches every record; applying the predicate leaves the record as it was.
C18_PredicateIsConjunction ==
    [][ApplyPredicate =>
        /\ record' = record
        /\ ~whereArg.present => matched'
        /\ whereArg.present => (matched' <=>
               /\ \A k \in DOMAIN whereArg.fields : evalFieldFilter(Field(record, k), whereArg.fields[k])
               /\ \A i \in 1..Len(SubsOf("AND")) : buildPredicate(SubsOf("AND")[i], record)
               /\ Len(SubsOf("OR")) > 0 => \E i \in 1..Len(SubsOf("OR")) : buildPredicate(SubsOf("OR")[i], record)
               /\ \A i \in 1..Len(SubsOf("NOT")) : ~buildPredicate(SubsOf("NOT")[i], record))]_vars

\* a record has matched a condition that carries a field filter, an empty OR list and a NOT
C18_Witness == predPc = "done" /\ matched /\ whereArg.present /\ DOMAIN whereArg.fields # {} /\ DOMAIN whereArg.logical = {"OR", "NOT"} /\ whereArg.logical["OR"] = List(<<>>) /\ Len(whereArg.logical["NOT"].subs) > 0

\* the init() calls that have begun the sequence of lines 17-23 and not yet ended
InFlight == { q \in InitCalls : initPc[q] \in {"awaitOpen", "resolved", "rejected"} }

\* C17: an init() call runs the build-schema / compute-version / open-store sequence
\* only while no other call is in flight, and a call made after a successful init()
\* builds no schema, writes no VersionRecord and opens no store.
C17_InitNotReentered ==
    [][\A p \in InitCalls : (initPc[p] = "idle" /\ initPc'[p] # "idle") =>
        /\ initPc'[p] # "done" => InFlight = {}
        /\ initialized => (initPc'[p] = "done" /\ item' = item /\ nWrites' = nWrites /\ dbState' = dbState /\ declared' = declared)]_vars

\* C20: once every init() call made so far has failed, the VersionRecord is the one the
\* first call found: nothing has been written to localStorage.
C20_FailedInitKeepsVersion == ((\A p \in InitCalls : initPc[p] \in {"idle", "threw"}) /\ (\E p \in InitCalls : initPc[p] = "threw")) => nWrites = 0

\* the entries of a table, as a set
Entries(table) == { table[i] : i \in 1..Len(table) }

\* the where-condition that holds exactly the primary key: each name of the key path with
\* the key's value as a literal
KeyProbe(kp, key) == Where([f \in { kp.path[i] : i \in 1..Len(kp.path) } |-> Literal(IF kp.kind = "string" THEN key.value ELSE key.parts[CHOOSE i \in 1..Len(kp.path) : kp.path[i] = f])], <<>>)

\* the entries the last call added to the table
Added == Entries(rows) \ Entries(before)

\* C11: after a create that succeeded the table is the one before plus one entry under a
\* new key, whose value is the one create returned, and findUnique with a where that holds
\* exactly that key returns an equal record.
C11_CreateRoundTrips ==
    (res.op = "create" /\ res.err = NoError) =>
        /\ Entries(before) \subseteq Entries(rows)
        /\ Cardinality(Added) = 1
        /\ \A r \in Added :
            /\ ~HasKey(before, r.key)
            /\ r.value = res.value
            /\ keyPath.kind # "null" => findUnique(rows, keyPath, KeyProbe(keyPath, r.key)) = [err |-> NoError, found |-> TRUE, value |-> res.value]

\* C12: createMany throws nothing, keeps every entry the table had, and returns as count
\* the number of entries it added: the whole batch when the bulk insert succeeds, the
\* items whose own insert succeeded when it fails.
C12_CreateManyCountsAdded ==
    res.op = "createMany" =>
        /\ res.err = NoError
        /\ Entries(before) \subseteq Entries(rows)
        /\ res.count = Cardinality(Added)
        /\ Len(rows) = Len(before) + res.count
        /\ res.count <= Len(res.data)

\* a batch of two records with the same key, put into an empty table: count 1, one record
C12_Witness == res.op = "createMany" /\ before = <<>> /\ Len(res.data) = 2 /\ getKeyFromEntity(keyPath, res.data[1]) = getKeyFromEntity(keyPath, res.data[2]) /\ getKeyFromEntity(keyPath, res.data[1]) # NoKey /\ res.count = 1 /\ Len(rows) = 1

\* the positions of the entries whose value satisfies the compiled predicate of where
Matching(table, where) == { i \in 1..Len(table) : buildPredicate(where, table[i].value) }

\* the position of the entry a where-condition resolves to - the one under the key the key
\* probe yields or, without a probe, the first the scan finds - and 0 when there is none
ResolvedAt(table, kp, where) ==
    LET probe == tryBuildKeyFromWhere(kp, where)
    IN  IF probe # NoKey THEN (IF HasKey(table, probe) THEN CHOOSE i \in 1..Len(table) : table[i].key = probe ELSE 0)
        ELSE IF Matching(table, where) = {} THEN 0
        ELSE CHOOSE i \in Matching(table, where) : \A j \in Matching(table, where) : i <= j

\* C13: an update that resolves no record throws not-found and leaves the table; one that
\* resolves a record replaces its value by the old value overlaid with data, leaves every
\* other entry and the number of entries, and returns the value now stored.
C13_UpdateChangesOneRecord ==
    res.op = "update" =>
        LET at == ResolvedAt(before, keyPath, res.where)
        IN  IF at = 0 THEN res.err = UpdateNotFound /\ rows = before
            ELSE /\ res.err = NoError
                 /\ rows = [before EXCEPT ![at].value = res.data @@ before[at].value]
                 /\ res.value = rows[at].value

\* the sum of the affected-row results of the store updates a call made
RECURSIVE Affected(_)
Affected(log) == IF log = <<>> THEN 0 ELSE Head(log)[4] + Affected(Tail(log))

\* the names of the key path
KeyFields == { keyPath.path[i] : i \in 1..Len(keyPath.path) }

\* the patch the claim gives the i-th matched record (i from 0) out of the list data
ClaimedPatch(data, i) == IF Len(data) = 0 THEN NoRecord ELSE IF Len(data) = 1 THEN data[1] ELSE IF i <= Len(data) - 1 THEN data[i + 1] ELSE data[Len(data)]

Without(table, j) == [i \in 1..(Len(table) - 1) |-> IF i < j THEN table[i] ELSE table[i + 1]]

\* the last call removed exactly one entry, whose value is the one it returned
RemovedReturned == \E j \in 1..Len(before) : before[j].value = res.value /\ rows = Without(before, j)

Removable == { j \in Matching(before, res.where) : getKeyFromEntity(keyPath, before[j].value) # NoKey }

\* the last call removed exactly the removable entries and returned their number
RemovedRemovable ==
    /\ res.err = NoError
    /\ rows = SelectSeq(before, LAMBDA r : \A j \in Removable : before[j] # r)
    /\ res.count = Cardinality(Removable)
    /\ Len(rows) = Len(before) - res.count

\* C16 as first stated: deleteMany removes the matching records whose key resolves, counts
\* them, and no record matches afterwards
C16_DeleteManyLeavesNoMatch == res.op = "deleteMany" => (RemovedRemovable /\ count(rows, res.where) = 0)

\* C16: deleteMany removes exactly the matching records whose key resolves, leaves the
\* others, returns the number removed, and when every matching record's key resolved no
\* record matches afterwards.
C16_DeleteManyRemovesResolved == res.op = "deleteMany" => (RemovedRemovable /\ (Removable = Matching(before, res.where) => count(rows, res.where) = 0))

\* a deleteMany with a where removed some records and left others
C16_Witness == res.op = "deleteMany" /\ res.where.present /\ res.count >= 1 /\ Len(rows) >= 1 /\ Len(before) = Len(rows) + res.count

\* the values of the entries the last call changed or removed, as they were before it
Touched == { e.value : e \in Entries(before) \ Entries(rows) }

\* C19: the record findUnique returns, and every record update or delete changes or
\* removes, satisfies the compiled predicate of the where; when no stored record satisfies
\* it, findUnique finds nothing and update and delete throw not-found.
C19_FastPathAgreesWithScan ==
    /\ (res.op = "findUnique" /\ res.err = NoError) =>
        /\ res.found => buildPredicate(res.where, res.value)
        /\ Matching(before, res.where) = {} => ~res.found
    /\ res.op \in {"update", "delete"} =>
        /\ \A v \in Touched : buildPredicate(res.where, v)
        /\ Matching(before, res.where) = {} => res.err = (IF res.op = "update" THEN UpdateNotFound ELSE DeleteNotFound)

\* the errors addColumn throws for the options it is given
ColumnRejections == {"autoIncrement requires primary", "Multiple primary columns"}

\* C22: an addColumn call that throws because of its options - autoIncrement without
\* primary, or a second primary column - leaves byCtor and byTable as they were: no
\* descriptor, no table name and no column is added or changed.
C22_RejectedColumnLeavesRegistry == [][(nCalls' = nCalls + 1 /\ ret'.op = "addColumn" /\ ret'.err \in ColumnRejections) => (byCtor' = byCtor /\ byTable' = byTable)]_vars

\* the first part of the orderBy on whose field two records differ, 0 when there is none
FirstDifference(a, b) ==
    LET parts == normalizeOrderBy(orderBy)
        differing == { n \in 1..Len(parts) : Field(a, parts[n].key) # Field(b, parts[n].key) }
    IN  IF differing = {} THEN 0 ELSE CHOOSE n \in differing : \A m \in differing : n <= m

\* C25: on records with undefined, null, numbers and strings the compiled comparator is
\* decided by the first part on whose field the two records differ (0 only when there is
\* none), cmp(a, b) and cmp(b, a) have opposite signs, cmp is transitive, also through
\* results of 0, and where that part is ascending undefined sorts before null, which
\* sorts before every defined value.
C25_ComparatorIsPreorder ==
    (ordPc = "done" /\ hasComparator(orderBy)) =>
        \A i \in 1..3, j \in 1..3 :
            LET n == FirstDifference(operands[i], operands[j])
                part == normalizeOrderBy(orderBy)[n]
                av == Field(operands[i], part.key)
                bv == Field(operands[j], part.key)
            IN  /\ cmpResult[<<i, j>>] = 0 - cmpResult[<<j, i>>]
                /\ (n = 0) <=> (cmpResult[<<i, j>>] = 0)
                /\ (n # 0 /\ part.dir = "asc" /\ av = Undef) => cmpResult[<<i, j>>] < 0
                /\ (n # 0 /\ part.dir = "asc" /\ av = Null /\ bv # Undef) => cmpResult[<<i, j>>] < 0
                /\ \A k \in 1..3 : (cmpResult[<<i, j>>] <= 0 /\ cmpResult[<<j, k>>] <= 0) => cmpResult[<<i, k>>] <= 0

\* both calls have returned or thrown
BothDone == DOMAIN tasks = Tasks /\ tasks[1].pc = "done" /\ tasks[2].pc = "done"

\* C21: next to a concurrent delete, an update call that returned a record without an
\* error applied its data to a record that was in the table when the store update ran;
\* when the delete removed the target first, the update throws not-found.
C21_ReturnedUpdateWasApplied ==
    \A i \in DOMAIN tasks : \A j \in DOMAIN tasks \ {i} :
        (tasks[i].op = "update" /\ tasks[j].op = "delete" /\ tasks[i].pc = "done" /\ tasks[i].err = NoError) => tasks[i].hit

\* C23: two upsert calls with the same where, on a table in which no record matched it
\* and which accepts the create payload, have when both are done created exactly one
\* record: one call took the create branch, the other the update branch, neither threw.
C23_OneUpsertCreates ==
    (BothDone /\ tasks[1].op = "upsert" /\ tasks[2].op = "upsert" /\ tasks[1].where = tasks[2].where /\ Matching(before, tasks[1].where) = {} /\ create(before, keyPath, autoInc, Len(before) + 1, tasks[1].create).err = NoError) =>
        /\ tasks[1].err = NoError /\ tasks[2].err = NoError
        /\ { tasks[1].branch, tasks[2].branch } = {"create", "update"}
        /\ Len(rows) = Len(before) + 1

\* two delete calls resolve to the same stored record, and to none once it is removed
SameTarget(w1, w2) ==
    LET j == ResolvedAt(before, keyPath, w1)
    IN  /\ keyPath # NoKeyPath
        /\ j # 0
        /\ ResolvedAt(before, keyPath, w2) = j
        /\ ResolvedAt(Without(before, j), keyPath, w1) = 0
        /\ ResolvedAt(Without(before, j), keyPath, w2) = 0

\* C24: of two delete calls that resolve to the same stored record, when both are done
\* exactly one has returned the record and the other has thrown not-found.
C24_OneDeleteSucceeds ==
    (BothDone /\ tasks[1].op = "delete" /\ tasks[2].op = "delete" /\ SameTarget(tasks[1].where, tasks[2].where)) =>
        \E i \in Tasks : \E j \in Tasks \ {i} :
            /\ tasks[i].err = NoError /\ tasks[i].value = before[ResolvedAt(before, keyPath, tasks[1].where)].value
            /\ tasks[j].err = DeleteNotFound

====
